---- MODULE Spec2Model ----
(***************************************************************************)
(* Model of the Meta Ads Library analyzer core: the ad selection engine    *)
(* (selector.py), the crawl loop of the scraper (meta_library.py) and the  *)
(* competition check, deep brand search and keyword expansion of the       *)
(* market pipeline (market_pipeline.py).                                   *)
(*                                                                         *)
(* Time is counted in whole hours since an arbitrary epoch.  An optional   *)
(* value (Python None) is the empty sequence <<>>, a present value v is    *)
(* the one-element sequence <<v>>; optional enums use the string "None".   *)
(***************************************************************************)
EXTENDS Integers, Sequences, FiniteSets, TLC

VARIABLES
    \* classify_ad(ad, config, now)
    ad, config, now, result,
    \* select_ads(ads, config, limit, now)
    in_ads, limit, selection,
    \* MetaAdsScraper._scrape_ads: its locals, its position and how it ended
    ads, seen_ids, scroll_attempts, stale_rounds, new_count, clicked, pc, stop,
    container_selector,
    \* history of the crawl: the cards that the extraction rounds returned,
    \* by first appearance; whether every discovery strategy failed on the page
    first_seen, seen_order, all_failed,
    \* MarketPipeline._check_competition_level(brand_ad_counts) and its result
    brand_ad_counts, competition,
    \* MarketPipeline._deep_search_brand with the part of MarketPipeline.run
    \* that calls it for one brand, and MarketPipeline._maybe_expand_keywords:
    \* each a record of the locals, the position and the history of the call
    deep, expand,
    \* MarketPipeline.run from its scan stage to the MarketResult, with the
    \* duplicate filter of the Pipeline it owns
    market,
    \* aggregate_by_advertiser and rank_advertisers: inputs, results and the
    \* list and entries the caller still holds
    aggregation,
    \* strategy 1 of the selector discovery script: the walk up from the first
    \* ad-detail anchor
    discovery,
    \* MetaAdsScraper._generate_id on the cards of one crawl session
    generated

classifyVars == <<ad, config, now, result>>
selectVars == <<in_ads, limit, selection>>
crawlVars == <<ads, seen_ids, scroll_attempts, stale_rounds, new_count, clicked,
               pc, stop, container_selector, first_seen, seen_order, all_failed>>
marketVars == <<brand_ad_counts, competition, deep, expand>>
unitVars == <<market, aggregation, discovery, generated>>
vars == <<classifyVars, selectVars, crawlVars, marketVars, unitVars>>

None == <<>>
Some(v) == <<v>>

Min(a, b) == IF a <= b THEN a ELSE b

(***************************************************************************)
(* Bounds of the model.                                                    *)
(***************************************************************************)
\* the day on which classification runs; "now" is 12:00 of that day
NowDay == 300
\* longest input list of select_ads
MaxAds == 4
\* largest limit given to select_ads
MaxLimit == 2
\* scraper config max_ads (default 100): the number of ads a crawl collects
CrawlMaxAds == 2
\* scraper config max_scroll_attempts (default 50)
MaxScrollAttempts == 6
\* most cards one extraction returns
MaxCards == 2
\* most brands in brand_ad_counts (top_brands, default 5)
MaxBrands == 4
\* most query variants of one deep brand search
MaxQueries == 2
\* most ads one run_scan returns to the deep brand search or to the keyword
\* expansion
MaxScanAds == 2
\* most related keywords of one keyword expansion (count, default 4)
MaxRelated == 2

(***************************************************************************)
(* ScrapedAd fields and their input values.                                *)
(***************************************************************************)
\* started_running strings.  An ISO string is its calendar day, its hour
\* and its suffix: "" (naive), "Z", or the offset "+05:00".
NoDate == [kind |-> "none"]
EmptyDate == [kind |-> "empty"]
MalformedDate == [kind |-> "malformed"]
IsoDate(d, h, sfx) == [kind |-> "iso", day |-> d, hour |-> h, suffix |-> sfx]

\* primary_text: None, or a string known by its name and by the number of
\* whitespace-separated words it holds.
NoText == [kind |-> "none"]
Text(name, n) == [kind |-> "text", name |-> name, words |-> n]

ScrapedAd(id, page, text, started, imps) ==
    [ad_id |-> id, page_name |-> page, primary_text |-> text,
     started_running |-> started, impression_lower |-> imps]

\* ScrapedAd.max_primary_text_words
MaxPrimaryTextWords(a) ==
    IF a.primary_text.kind = "none" THEN 0 ELSE a.primary_text.words

(***************************************************************************)
(* The [selection] section of the config.  A config is a function from     *)
(* some of the keys to numbers; a missing key takes the default that the   *)
(* code passes to dict.get.                                                *)
(***************************************************************************)
DefaultSelection ==
    [active_winner_max_days |-> 14,
     active_winner_min_impressions |-> 50000,
     proven_recent_max_days |-> 30,
     proven_recent_min_impressions |-> 10000,
     strategic_direction_max_days |-> 7,
     recent_moderate_max_days |-> 60,
     recent_moderate_min_impressions |-> 50000,
     skip_older_than_days |-> 180,
     min_primary_text_words |-> 50,
     failed_test_max_impressions |-> 1000,
     failed_test_min_days |-> 30]

\* selection_cfg.get(key, default)
CfgGet(cfg, key) == IF key \in DOMAIN cfg THEN cfg[key] ELSE DefaultSelection[key]

(***************************************************************************)
(* classify_ad                                                             *)
(***************************************************************************)
SuffixOffsetHours(sfx) == IF sfx = "+05:00" THEN 5 ELSE 0

\* The launch instant (UTC hours) of a started_running string, None when the
\* field is absent, empty or not an ISO date.
ParseLaunch(s) ==
    IF s.kind = "iso"
    THEN Some(s.day * 24 + s.hour - SuffixOffsetHours(s.suffix))
    ELSE None

\* (now - launch).days : timedelta.days is the floor of the difference
DaysSinceLaunch(s, t) ==
    IF ParseLaunch(s) = None THEN None
    ELSE Some((t - ParseLaunch(s)[1]) \div 24)

\* bug: the ClassifiedAd keeps its default label
Selected_KeepsDefaultLabel(priority, label, days) ==
    [priority |-> priority, label |-> "SKIP", skip_reason |-> "None", days |-> days]
\* bug: a skip that forgets its reason
Skipped_WithoutReason(reason, days) ==
    [priority |-> "None", label |-> "SKIP", skip_reason |-> "None", days |-> days]

Selected(priority, label, days) ==
    [priority |-> priority, label |-> label, skip_reason |-> "None", days |-> days]
Skipped(reason, days) ==
    [priority |-> "None", label |-> "SKIP", skip_reason |-> reason, days |-> days]

PriorityLabel(p) ==
    CASE p = "P1_ACTIVE_WINNER" -> "ACTIVE_WINNER"
      [] p = "P2_PROVEN_RECENT" -> "PROVEN_RECENT"
      [] p = "P3_STRATEGIC_DIRECTION" -> "STRATEGIC_DIRECTION"
      [] p = "P4_RECENT_MODERATE" -> "RECENT_MODERATE"

\* skip rule: thin text
ThinText(a, cfg) == MaxPrimaryTextWords(a) < CfgGet(cfg, "min_primary_text_words")

\* bug: the failed-test rule is tried before the legacy rule
DateSkip_FailedTestFirst(days, imps, cfg) ==
    IF imps > 0
       /\ imps < CfgGet(cfg, "failed_test_max_impressions")
       /\ days > CfgGet(cfg, "failed_test_min_days") THEN "FAILED_TEST"
    ELSE IF days >= CfgGet(cfg, "skip_older_than_days") THEN "LEGACY_AUTOPILOT"
    ELSE "None"

\* date-based skip rules, "None" when neither applies
DateSkip(days, imps, cfg) ==
    IF days >= CfgGet(cfg, "skip_older_than_days") THEN "LEGACY_AUTOPILOT"
    ELSE IF imps > 0
            /\ imps < CfgGet(cfg, "failed_test_max_impressions")
            /\ days > CfgGet(cfg, "failed_test_min_days") THEN "FAILED_TEST"
    ELSE "None"

\* bug: the P3 rule is tried before the P2 rule
DatedTier_P3BeforeP2(days, imps, cfg) ==
    IF days <= CfgGet(cfg, "active_winner_max_days")
       /\ imps >= CfgGet(cfg, "active_winner_min_impressions") THEN "P1_ACTIVE_WINNER"
    ELSE IF days <= CfgGet(cfg, "strategic_direction_max_days") THEN "P3_STRATEGIC_DIRECTION"
    ELSE IF days <= CfgGet(cfg, "proven_recent_max_days")
            /\ imps >= CfgGet(cfg, "proven_recent_min_impressions") THEN "P2_PROVEN_RECENT"
    ELSE IF days <= CfgGet(cfg, "recent_moderate_max_days")
            /\ imps >= CfgGet(cfg, "recent_moderate_min_impressions") THEN "P4_RECENT_MODERATE"
    ELSE "None"

\* bug: the P4 rule is tried before the P2 rule
DatedTier_P4BeforeP2(days, imps, cfg) ==
    IF days <= CfgGet(cfg, "active_winner_max_days")
       /\ imps >= CfgGet(cfg, "active_winner_min_impressions") THEN "P1_ACTIVE_WINNER"
    ELSE IF days <= CfgGet(cfg, "recent_moderate_max_days")
            /\ imps >= CfgGet(cfg, "recent_moderate_min_impressions") THEN "P4_RECENT_MODERATE"
    ELSE IF days <= CfgGet(cfg, "proven_recent_max_days")
            /\ imps >= CfgGet(cfg, "proven_recent_min_impressions") THEN "P2_PROVEN_RECENT"
    ELSE IF days <= CfgGet(cfg, "strategic_direction_max_days") THEN "P3_STRATEGIC_DIRECTION"
    ELSE "None"

\* date and impressions both available
DatedTier(days, imps, cfg) ==
    IF days <= CfgGet(cfg, "active_winner_max_days")
       /\ imps >= CfgGet(cfg, "active_winner_min_impressions") THEN "P1_ACTIVE_WINNER"
    ELSE IF days <= CfgGet(cfg, "proven_recent_max_days")
            /\ imps >= CfgGet(cfg, "proven_recent_min_impressions") THEN "P2_PROVEN_RECENT"
    ELSE IF days <= CfgGet(cfg, "strategic_direction_max_days") THEN "P3_STRATEGIC_DIRECTION"
    ELSE IF days <= CfgGet(cfg, "recent_moderate_max_days")
            /\ imps >= CfgGet(cfg, "recent_moderate_min_impressions") THEN "P4_RECENT_MODERATE"
    ELSE "None"

\* date available, impressions hidden (0)
AgeOnlyTier(days, cfg) ==
    IF days <= CfgGet(cfg, "active_winner_max_days") THEN "P1_ACTIVE_WINNER"
    ELSE IF days <= CfgGet(cfg, "proven_recent_max_days") THEN "P2_PROVEN_RECENT"
    ELSE IF days <= CfgGet(cfg, "recent_moderate_max_days") THEN "P4_RECENT_MODERATE"
    ELSE "None"

\* bug: an ad with neither date nor impressions gets no tier
UndatedTier_DropsUnknown(imps, cfg) ==
    IF imps >= CfgGet(cfg, "active_winner_min_impressions") THEN "P1_ACTIVE_WINNER"
    ELSE IF imps >= CfgGet(cfg, "proven_recent_min_impressions") THEN "P2_PROVEN_RECENT"
    ELSE IF imps > 0 THEN "P4_RECENT_MODERATE"
    ELSE "None"

\* no date: impressions alone
UndatedTier(imps, cfg) ==
    IF imps >= CfgGet(cfg, "active_winner_min_impressions") THEN "P1_ACTIVE_WINNER"
    ELSE IF imps >= CfgGet(cfg, "proven_recent_min_impressions") THEN "P2_PROVEN_RECENT"
    ELSE IF imps > 0 THEN "P4_RECENT_MODERATE"
    ELSE "P4_RECENT_MODERATE"

ClassifyAd(a, cfg, t) ==
    LET days_since_launch == DaysSinceLaunch(a.started_running, t)
        has_date == days_since_launch # None
        impressions == a.impression_lower
        tier == IF has_date /\ impressions > 0
                    THEN DatedTier(days_since_launch[1], impressions, cfg)
                ELSE IF has_date /\ impressions = 0
                    THEN AgeOnlyTier(days_since_launch[1], cfg)
                ELSE UndatedTier(impressions, cfg)
    IN  IF ThinText(a, cfg) THEN Skipped("THIN_TEXT", days_since_launch)
        ELSE IF has_date /\ DateSkip(days_since_launch[1], impressions, cfg) # "None"
            THEN Skipped(DateSkip(days_since_launch[1], impressions, cfg), days_since_launch)
        ELSE IF tier # "None"
            THEN Selected(tier, PriorityLabel(tier), days_since_launch)
        ELSE Skipped("BELOW_THRESHOLD", days_since_launch)

(***************************************************************************)
(* select_ads                                                              *)
(***************************************************************************)
\* ClassifiedAd(ad=..., priority=..., priority_label=..., ...)
ClassifiedAd(a, r) ==
    [ad |-> a, priority |-> r.priority, priority_label |-> r.label,
     skip_reason |-> r.skip_reason, days_since_launch |-> r.days]

\* the list of ClassifiedAd built by the first loop of select_ads
ClassifyAll(list, cfg, t) ==
    [i \in 1..Len(list) |-> ClassifiedAd(list[i], ClassifyAd(list[i], cfg, t))]

IsSelected(ca) == ca.priority # "None"
IsSkipped(ca) == ca.priority = "None"

\* f"{ad.page_name}::{text}" with text = ad.primary_text or ""
DedupKey(a) ==
    <<a.page_name, IF a.primary_text.kind = "none" THEN "" ELSE a.primary_text.name>>

\* one round of the loop of deduplicate_ads on its dict "seen"
SeenStep(seen, a) ==
    LET key == DedupKey(a)
    IN  IF key \notin DOMAIN seen THEN seen @@ (key :> a)
        ELSE IF a.impression_lower > seen[key].impression_lower
            THEN [seen EXCEPT ![key] = a]
        ELSE seen

RECURSIVE SeenFrom(_, _, _)
\* the dict "seen" once the loop has run over list[k..]
SeenFrom(list, k, seen) ==
    IF k > Len(list) THEN seen
    ELSE SeenFrom(list, k + 1, SeenStep(seen, list[k]))

\* deduplicate_ads: the kept ads (as a set: select_ads uses only their ids)
\* and the number of duplicates removed
DeduplicateAds(list) ==
    LET seen == SeenFrom(list, 1, [x \in {} |-> 0])
        kept == {seen[k] : k \in DOMAIN seen}
    IN  [kept |-> kept, duplicates_removed |-> Len(list) - Cardinality(DOMAIN seen)]

RECURSIVE PriorityOrderFrom(_, _, _)
PriorityOrderFrom(selected, k, order) ==
    IF k > Len(selected) THEN order
    ELSE PriorityOrderFrom(selected, k + 1,
            IF \E j \in 1..Len(order) : order[j] = selected[k].priority
            THEN order ELSE Append(order, selected[k].priority))

\* the keys of deduped_by_priority in insertion order: each priority at the
\* place of its first ad
PriorityOrder(selected) == PriorityOrderFrom(selected, 1, <<>>)

AdsOf(cas) == [i \in 1..Len(cas) |-> cas[i].ad]

\* bug: the duplicates of a group are dropped without being counted
DedupGroup_DropsUncounted(cas) ==
    LET d == DeduplicateAds(AdsOf(cas))
        deduped_ids == {a.ad_id : a \in d.kept}
    IN  [cas |-> SelectSeq(cas, LAMBDA ca : ca.ad.ad_id \in deduped_ids),
         dup_count |-> 0]

\* one priority group after the deduplication step: groups of more than 3
\* ads are left alone
DedupGroup(cas) ==
    IF Len(cas) <= 3
    THEN LET d == DeduplicateAds(AdsOf(cas))
             deduped_ids == {a.ad_id : a \in d.kept}
         IN  [cas |-> SelectSeq(cas, LAMBDA ca : ca.ad.ad_id \in deduped_ids),
              dup_count |-> d.duplicates_removed]
    ELSE [cas |-> cas, dup_count |-> 0]

RECURSIVE DedupGroupsFrom(_, _, _, _)
DedupGroupsFrom(selected, order, k, acc) ==
    IF k > Len(order) THEN acc
    ELSE LET g == DedupGroup(SelectSeq(selected, LAMBDA ca : ca.priority = order[k]))
         IN  DedupGroupsFrom(selected, order, k + 1,
                             [cas |-> acc.cas \o g.cas,
                              dup_count |-> acc.dup_count + g.dup_count])

\* deduped_classified and total_dup_count
DedupByPriority(selected) ==
    DedupGroupsFrom(selected, PriorityOrder(selected), 1, [cas |-> <<>>, dup_count |-> 0])

\* the rank of priority.value in string order
PriorityValueRank(p) ==
    CASE p = "P1_ACTIVE_WINNER" -> 1
      [] p = "P2_PROVEN_RECENT" -> 2
      [] p = "P3_STRATEGIC_DIRECTION" -> 3
      [] p = "P4_RECENT_MODERATE" -> 4

\* bug: impressions ascending
SortKeyLess_Ascending(x, y) ==
    \/ PriorityValueRank(x.priority) < PriorityValueRank(y.priority)
    \/ /\ x.priority = y.priority
       /\ x.ad.impression_lower < y.ad.impression_lower

\* key(x) < key(y) for the sort key (priority.value, -impression_lower)
SortKeyLess(x, y) ==
    \/ PriorityValueRank(x.priority) < PriorityValueRank(y.priority)
    \/ /\ x.priority = y.priority
       /\ x.ad.impression_lower > y.ad.impression_lower

\* x put into a sorted list behind every element whose key is not greater
InsertSorted(sorted, x) ==
    LET pos == Cardinality({j \in 1..Len(sorted) : ~SortKeyLess(x, sorted[j])})
    IN  SubSeq(sorted, 1, pos) \o <<x>> \o SubSeq(sorted, pos + 1, Len(sorted))

RECURSIVE SortFrom(_, _, _)
SortFrom(cas, k, sorted) ==
    IF k > Len(cas) THEN sorted
    ELSE SortFrom(cas, k + 1, InsertSorted(sorted, cas[k]))

\* list.sort(key=...): a stable sort, here by insertion
SortSelected(cas) == SortFrom(cas, 1, <<>>)

\* selected[:limit] when limit > 0
ApplyLimit(cas, lim) ==
    IF lim > 0 THEN SubSeq(cas, 1, Min(lim, Len(cas))) ELSE cas

\* stats.by_priority / stats.skip_reasons: occurrences of each value
CountBy(keys) ==
    [v \in {keys[i] : i \in 1..Len(keys)} |->
        Cardinality({i \in 1..Len(keys) : keys[i] = v})]

SelectAdsOp(list, cfg, lim, t) ==
    LET classified_ads == ClassifyAll(list, cfg, t)
        selected0 == SelectSeq(classified_ads, IsSelected)
        skipped == SelectSeq(classified_ads, IsSkipped)
        deduped == DedupByPriority(selected0)
        selected == ApplyLimit(SortSelected(deduped.cas), lim)
    IN  [selected |-> selected,
         skipped |-> skipped,
         stats |-> [total_scanned |-> Len(list),
                    total_selected |-> Len(selected),
                    total_skipped |-> Len(skipped),
                    duplicates_removed |-> deduped.dup_count,
                    by_priority |->
                        CountBy([i \in 1..Len(selected) |-> selected[i].priority_label]),
                    skip_reasons |->
                        CountBy([i \in 1..Len(skipped) |-> skipped[i].skip_reason])]]

(***************************************************************************)
(* Inputs of classify_ad                                                   *)
(***************************************************************************)
NowHours == NowDay * 24 + 12

\* ages (in days, for a launch at 00:00) on both sides of every threshold
Ages == {-1, 0, 5, 7, 8, 10, 14, 15, 20, 25, 30, 31, 40, 50, 60, 61, 70, 179, 180, 200}
LaunchHours == {0, 18}
Suffixes == {"", "Z", "+05:00"}
StartedRunningValues ==
    {NoDate, EmptyDate, MalformedDate}
    \cup {IsoDate(NowDay - a, h, sfx) : a \in Ages, h \in LaunchHours, sfx \in Suffixes}

Impressions == {0, 1, 500, 999, 1000, 5000, 9999, 10000, 15000, 49999, 50000, 75000}

ClassifyTexts == {NoText, Text("empty", 0), Text("thin", 30), Text("short", 49),
                  Text("enough", 50), Text("long", 100)}

\* no [selection] keys at all: every threshold is its default
EmptyConfig == [k \in {} |-> 0]
\* the config of the test suite: every key, at its default value
TestConfig == DefaultSelection
\* a config that overrides some thresholds
CustomConfig ==
    [min_primary_text_words |-> 40,
     strategic_direction_max_days |-> 20,
     skip_older_than_days |-> 61,
     failed_test_max_impressions |-> 6000,
     proven_recent_min_impressions |-> 5000]
Configs == {EmptyConfig, TestConfig, CustomConfig}

IdleClassify == ad = ScrapedAd("0", "A", NoText, NoDate, 0) /\ config = EmptyConfig
                /\ now = NowHours /\ result = None
IdleSelect == in_ads = <<>> /\ limit = 0 /\ selection = None
IdleCrawl == ads = <<>> /\ seen_ids = {} /\ scroll_attempts = 0 /\ stale_rounds = 0
             /\ new_count = 0 /\ clicked = FALSE /\ pc = "idle" /\ stop = "None"
             /\ first_seen = [x \in {} |-> 0] /\ seen_order = <<>>
             /\ container_selector = None /\ all_failed = FALSE
IdleMarket == brand_ad_counts = <<>> /\ competition = None
              /\ deep = [pc |-> "idle"] /\ expand = [pc |-> "idle"]
IdleUnits == market = [pc |-> "idle"] /\ aggregation = [pc |-> "idle"]
             /\ discovery = [pc |-> "idle"] /\ generated = [pc |-> "idle"]

InitClassify ==
    /\ ad \in {ScrapedAd("1", "TestBrand", t, s, i) :
                  t \in ClassifyTexts, s \in StartedRunningValues, i \in Impressions}
    /\ config \in Configs
    /\ now = NowHours
    /\ result = None
    /\ IdleSelect
    /\ IdleCrawl
    /\ IdleMarket
    /\ IdleUnits

\* one call classify_ad(ad, config, now)
Classify ==
    /\ result = None
    /\ ad.ad_id = "1"
    /\ pc = "idle"
    /\ result' = Some(ClassifyAd(ad, config, now))
    /\ UNCHANGED <<ad, config, now, selectVars, crawlVars, marketVars, unitVars>>

NextClassify == Classify
SpecClassify == InitClassify /\ [][NextClassify]_vars

(***************************************************************************)
(* Inputs of select_ads                                                    *)
(***************************************************************************)
CopyOne == Text("copy one", 100)
CopyTwo == Text("copy two", 100)
TenDaysAgo == IsoDate(NowDay - 10, 0, "")
\* what an ad of the input list can be, apart from its ad_id: page_name,
\* primary_text, started_running, impression_lower
AdShapes ==
    {<<"BrandA", CopyOne, TenDaysAgo, 75000>>,                   \* P1
     <<"BrandA", CopyOne, TenDaysAgo, 50000>>,                   \* P1
     <<"BrandA", CopyTwo, TenDaysAgo, 50000>>,                   \* P1
     <<"BrandB", CopyOne, TenDaysAgo, 75000>>,                   \* P1
     <<"BrandA", CopyOne, IsoDate(NowDay - 25, 0, "Z"), 15000>>, \* P2
     <<"BrandA", CopyOne, NoDate, 0>>,                           \* P4
     <<"BrandA", CopyOne, IsoDate(NowDay - 200, 0, ""), 50000>>, \* legacy
     <<"BrandB", Text("thin", 30), TenDaysAgo, 75000>>}          \* thin text

IdOf(i) == ToString(i)

\* an input list: ad ids are unique (the crawl merges by ad_id)
InputList(n, shapes) ==
    [i \in 1..n |-> ScrapedAd(IdOf(i), shapes[i][1], shapes[i][2], shapes[i][3], shapes[i][4])]

InitSelect ==
    /\ \E n \in 0..MaxAds : \E shapes \in [1..n -> AdShapes] :
          in_ads = InputList(n, shapes)
    /\ limit = 0
    /\ selection = None
    /\ config = TestConfig
    /\ now = NowHours
    /\ ad = ScrapedAd("0", "A", NoText, NoDate, 0)
    /\ result = None
    /\ IdleCrawl
    /\ IdleMarket
    /\ IdleUnits

\* one call select_ads(ads, config, limit, now)
SelectAds ==
    /\ selection = None
    /\ result = None
    /\ pc = "idle"
    /\ \E lim \in 0..MaxLimit :
          /\ limit' = lim
          /\ selection' = Some(SelectAdsOp(in_ads, config, lim, now))
    /\ UNCHANGED <<in_ads, classifyVars, crawlVars, marketVars, unitVars>>

NextSelect == SelectAds
SpecSelect == InitSelect /\ [][NextSelect]_vars

\* classify_ad alone and inside select_ads
InitSelection == InitClassify \/ InitSelect
NextSelection == Classify \/ SelectAds
SpecSelection == InitSelection /\ [][NextSelection]_vars

(***************************************************************************)
(* MetaAdsScraper._scrape_ads: the scroll-and-collect loop                 *)
(***************************************************************************)
\* stale rounds after which the loop gives up
StaleLimit == 5

\* what _extract_ad_cards can return: a list of cards, each an ad id and the
\* content extracted with it (the same ad can be extracted again later with
\* other content)
AdIds == {"ad1", "ad2", "ad3"}
Bodies == {"x", "y"}
Card(id, body) == [ad_id |-> id, body |-> body]
Cards == {Card(id, body) : id \in AdIds, body \in Bodies}

\* bug: the record of an id seen again replaces the one collected
MergeCard_Overwrites(st, card) ==
    IF Len(st.ads) >= CrawlMaxAds THEN st
    ELSE IF card.ad_id \notin st.seen_ids
    THEN [ads |-> Append(st.ads, [ad_id |-> card.ad_id, body |-> card.body,
                                  scrape_position |-> Len(st.ads)]),
          seen_ids |-> st.seen_ids \cup {card.ad_id},
          added_this_round |-> st.added_this_round + 1]
    ELSE [st EXCEPT !.ads = [i \in 1..Len(st.ads) |->
                                IF st.ads[i].ad_id = card.ad_id
                                THEN [st.ads[i] EXCEPT !.body = card.body]
                                ELSE st.ads[i]]]

\* one round of "for ad in new_ads"; once max_ads is reached the loop has
\* broken and the remaining cards are not looked at
MergeCard(st, card) ==
    IF Len(st.ads) >= CrawlMaxAds THEN st
    ELSE IF card.ad_id \notin st.seen_ids
    THEN [ads |-> Append(st.ads, [ad_id |-> card.ad_id, body |-> card.body,
                                  scrape_position |-> Len(st.ads)]),
          seen_ids |-> st.seen_ids \cup {card.ad_id},
          added_this_round |-> st.added_this_round + 1]
    ELSE st

RECURSIVE MergeFrom(_, _, _)
MergeFrom(new_ads, k, st) ==
    IF k > Len(new_ads) THEN st
    ELSE MergeFrom(new_ads, k + 1, MergeCard(st, new_ads[k]))

\* sum(1 for a in post_scroll_ads if a.ad_id not in seen_ids)
NewCount(post_scroll_ads, seen) ==
    Cardinality({i \in 1..Len(post_scroll_ads) : post_scroll_ads[i].ad_id \notin seen})

\* bug: a successful load-more click does not reset the counter
StaleAfter_NoResetOnClick(stale, count, click) ==
    IF count = 0 THEN stale + 1 ELSE 0

\* stale_rounds after a scroll round that showed count unseen cards and whose
\* load-more attempt (made when count = 0) returned click
StaleAfter(stale, count, click) ==
    IF count = 0
    THEN IF click THEN 0 ELSE stale + 1
    ELSE 0

\* the cards of the extraction rounds, by first appearance
RECURSIVE RecordFrom(_, _, _)
RecordFrom(new_ads, k, h) ==
    IF k > Len(new_ads) THEN h
    ELSE RecordFrom(new_ads, k + 1,
            IF new_ads[k].ad_id \in DOMAIN h.first
            THEN h
            ELSE [first |-> h.first @@ (new_ads[k].ad_id :> new_ads[k].body),
                  order |-> Append(h.order, new_ads[k].ad_id)])

\* what the discovery script finds on the page: the selector that strategy 1
\* builds from the ad links (None when there are no ad links or no usable
\* selector at a card level), whether strategy 2 finds role="article"
\* elements, the best candidate of strategy 3, and whether there are ad links
\* at all (strategy 4)
DiscoveryPages ==
    {p \in [s1 : {None, Some("div[role=listitem]")},
            s2 : BOOLEAN,
            s3 : {None, Some("[role=feed] > div"), Some("STRUCTURAL:2")},
            ad_links : BOOLEAN] :
        p.s1 # None => p.ad_links}

\* what the script returns: the result of the first strategy that succeeds,
\* else null
DiscoveryScript(p) ==
    IF p.s1 # None THEN p.s1
    ELSE IF p.s2 THEN Some("[role=article]")
    ELSE IF p.s3 # None THEN p.s3
    ELSE IF p.ad_links THEN Some("AD_LINK_WALK")
    ELSE None

\* bug: the last resort is taken even when the page has no ad links
DiscoverAdSelector_AlwaysWalks(p) ==
    LET selector == DiscoveryScript(p)
    IN  IF selector = None THEN Some("__AD_LINK_WALK__")
        ELSE IF selector[1] = "AD_LINK_WALK" THEN Some("__AD_LINK_WALK__")
        ELSE IF selector[1] = "STRUCTURAL:2" THEN Some("__STRUCTURAL__")
        ELSE selector

\* _discover_ad_selector: None, or the selector descriptor that
\* _extract_ad_cards takes
DiscoverAdSelector(p) ==
    LET selector == DiscoveryScript(p)
    IN  IF selector = None THEN None
        ELSE IF selector[1] = "AD_LINK_WALK" THEN Some("__AD_LINK_WALK__")
        ELSE IF selector[1] = "STRUCTURAL:2" THEN Some("__STRUCTURAL__")
        ELSE selector

AllStrategiesFail(p) == p.s1 = None /\ ~p.s2 /\ p.s3 = None /\ ~p.ad_links

InitCrawl ==
    /\ pc = "navigate"
    /\ ads = <<>> /\ seen_ids = {} /\ scroll_attempts = 0 /\ stale_rounds = 0
    /\ new_count = 0 /\ clicked = FALSE /\ stop = "None"
    /\ first_seen = [x \in {} |-> 0] /\ seen_order = <<>>
    /\ container_selector = None /\ all_failed = FALSE
    /\ IdleClassify
    /\ IdleSelect
    /\ IdleMarket
    /\ IdleUnits

\* page.goto returned within its 30 s timeout
Navigate ==
    /\ pc = "navigate"
    /\ pc' = "discover"
    /\ UNCHANGED <<ads, seen_ids, scroll_attempts, stale_rounds, new_count, clicked,
                   stop, container_selector, first_seen, seen_order, all_failed,
                   classifyVars, selectVars, marketVars, unitVars>>

\* page.goto timed out: the TimeoutError leaves _scrape_ads and scrape, which
\* only close the browser on the way
NavigationTimeout ==
    /\ pc = "navigate"
    /\ pc' = "raised"
    /\ stop' = "timeout"
    /\ UNCHANGED <<ads, seen_ids, scroll_attempts, stale_rounds, new_count, clicked,
                   container_selector, first_seen, seen_order, all_failed,
                   classifyVars, selectVars, marketVars, unitVars>>

\* _discover_ad_selector found a container selector
SelectorFound ==
    /\ pc = "discover"
    /\ \E p \in DiscoveryPages :
          /\ DiscoverAdSelector(p) # None
          /\ container_selector' = DiscoverAdSelector(p)
          /\ all_failed' = AllStrategiesFail(p)
    /\ pc' = "extract"
    /\ UNCHANGED <<ads, seen_ids, scroll_attempts, stale_rounds, new_count, clicked,
                   stop, first_seen, seen_order, classifyVars, selectVars, marketVars, unitVars>>

\* no strategy found a container: return []
SelectorNotFound ==
    /\ pc = "discover"
    /\ \E p \in DiscoveryPages :
          /\ DiscoverAdSelector(p) = None
          /\ container_selector' = None
          /\ all_failed' = AllStrategiesFail(p)
    /\ pc' = "done"
    /\ stop' = "not_found"
    /\ UNCHANGED <<ads, seen_ids, scroll_attempts, stale_rounds, new_count, clicked,
                   first_seen, seen_order, classifyVars, selectVars, marketVars, unitVars>>

\* bug: the cap on scroll attempts lets one scroll too many through
LoopCondition_OneMoreScroll(n_ads, attempts) ==
    n_ads < CrawlMaxAds /\ attempts <= MaxScrollAttempts

\* while len(ads) < self.max_ads and scroll_attempts < self.max_scroll_attempts
LoopCondition(n_ads, attempts) ==
    n_ads < CrawlMaxAds /\ attempts < MaxScrollAttempts

\* the while condition is false
LoopExit ==
    /\ pc = "extract"
    /\ ~LoopCondition(Len(ads), scroll_attempts)
    /\ pc' = "done"
    /\ stop' = "cap"
    /\ UNCHANGED <<ads, seen_ids, scroll_attempts, stale_rounds, new_count, clicked,
                   container_selector, first_seen, seen_order, all_failed,
                   classifyVars, selectVars, marketVars, unitVars>>

\* top of the loop body: extract the visible cards and merge the unseen ones
ExtractRound ==
    /\ pc = "extract"
    /\ LoopCondition(Len(ads), scroll_attempts)
    /\ \E n \in 0..MaxCards : \E new_ads \in [1..n -> Cards] :
          LET st == MergeFrom(new_ads, 1, [ads |-> ads, seen_ids |-> seen_ids,
                                           added_this_round |-> 0])
              h == RecordFrom(new_ads, 1, [first |-> first_seen, order |-> seen_order])
          IN  /\ ads' = st.ads
              /\ seen_ids' = st.seen_ids
              /\ first_seen' = h.first
              /\ seen_order' = h.order
              /\ IF Len(st.ads) >= CrawlMaxAds
                 THEN pc' = "done" /\ stop' = "target"
                 ELSE pc' = "scroll" /\ stop' = stop
    /\ UNCHANGED <<scroll_attempts, stale_rounds, new_count, clicked,
                   container_selector, all_failed, classifyVars, selectVars, marketVars, unitVars>>

\* rest of the loop body: scroll, count the unseen cards now visible, try
\* the load-more triggers when there are none
ScrollRound ==
    /\ pc = "scroll"
    /\ scroll_attempts' = scroll_attempts + 1
    /\ \E n \in 0..MaxCards : \E post_ids \in [1..n -> AdIds] : \E click \in BOOLEAN :
          LET post_scroll_ads == [i \in 1..n |-> Card(post_ids[i], "x")]
              count == NewCount(post_scroll_ads, seen_ids)
          IN  /\ new_count' = count
              /\ clicked' = IF count = 0 THEN click ELSE clicked
              /\ stale_rounds' = StaleAfter(stale_rounds, count, click)
              /\ IF count = 0 /\ ~click /\ StaleAfter(stale_rounds, count, click) >= StaleLimit
                 THEN pc' = "done" /\ stop' = "exhausted"
                 ELSE pc' = "extract" /\ stop' = stop
    /\ UNCHANGED <<ads, seen_ids, container_selector, first_seen, seen_order, all_failed,
                   classifyVars, selectVars, marketVars, unitVars>>

\* the scroll script or the extraction after it raised (the page crashed or
\* was closed): nothing in the loop catches it
ScrollError ==
    /\ pc = "scroll"
    /\ pc' = "raised"
    /\ stop' = "error"
    /\ UNCHANGED <<ads, seen_ids, scroll_attempts, stale_rounds, new_count, clicked,
                   container_selector, first_seen, seen_order, all_failed,
                   classifyVars, selectVars, marketVars, unitVars>>

\* return ads[: self.max_ads]
Output == SubSeq(ads, 1, Min(CrawlMaxAds, Len(ads)))

NextCrawl ==
    \/ Navigate \/ NavigationTimeout \/ SelectorFound \/ SelectorNotFound
    \/ ExtractRound \/ ScrollRound \/ ScrollError \/ LoopExit
SpecCrawl == InitCrawl /\ [][NextCrawl]_vars

\* the crawl under an event loop that resumes the coroutine whenever it can
\* take a step
SpecCrawlFair == SpecCrawl /\ WF_vars(NextCrawl)

(***************************************************************************)
(* MarketPipeline._check_competition_level                                 *)
(***************************************************************************)
\* minimum qualifying ads a brand must have
BLUE_OCEAN_THRESHOLD == 50

BrandNames == {"A", "B", "C", "D"}
CountValues == {0, 10, 49, 50, 60}

\* brand_ad_counts is a dict: a sequence of entries with distinct brands, in
\* insertion order
CountEntry(brand, count) == [brand |-> brand, count |-> count]

RECURSIVE QualifyingFrom(_, _, _, _)
QualifyingFrom(counts, least, k, acc) ==
    IF k > Len(counts) THEN acc
    ELSE QualifyingFrom(counts, least, k + 1,
            IF counts[k].count >= least THEN Append(acc, counts[k].brand) ELSE acc)

\* bug: a brand qualifies only above the threshold
Qualifying_AboveThreshold(counts) ==
    QualifyingFrom(counts, BLUE_OCEAN_THRESHOLD + 1, 1, <<>>)

\* [brand for brand, count in brand_ad_counts.items() if count >= BLUE_OCEAN_THRESHOLD]
Qualifying(counts) == QualifyingFrom(counts, BLUE_OCEAN_THRESHOLD, 1, <<>>)

\* bug: three qualifying brands still count as thin
LevelOf_ThinUpToThree(qualifying) ==
    IF Len(qualifying) = 0 THEN [level |-> "blue_ocean", qualifying |-> <<>>]
    ELSE IF Len(qualifying) <= 3 THEN [level |-> "thin", qualifying |-> qualifying]
    ELSE [level |-> "normal", qualifying |-> qualifying]

\* the if / elif / else on len(qualifying)
LevelOf(qualifying) ==
    IF Len(qualifying) = 0 THEN [level |-> "blue_ocean", qualifying |-> <<>>]
    ELSE IF Len(qualifying) <= 2 THEN [level |-> "thin", qualifying |-> qualifying]
    ELSE [level |-> "normal", qualifying |-> qualifying]

CheckCompetitionLevel(counts) == LevelOf(Qualifying(counts))

InitCompetition ==
    /\ \E n \in 0..MaxBrands : \E names \in [1..n -> BrandNames] :
       \E counts \in [1..n -> CountValues] :
          /\ \A i, j \in 1..n : names[i] = names[j] => i = j
          /\ brand_ad_counts = [i \in 1..n |-> CountEntry(names[i], counts[i])]
    /\ competition = None
    /\ deep = [pc |-> "idle"] /\ expand = [pc |-> "idle"]
    /\ IdleClassify
    /\ IdleSelect
    /\ IdleCrawl
    /\ IdleUnits

\* one call self._check_competition_level(brand_ad_counts)
CheckCompetition ==
    /\ competition = None
    /\ pc = "idle" /\ deep.pc = "idle" /\ expand.pc = "idle"
    /\ result = None /\ selection = None
    /\ competition' = Some(CheckCompetitionLevel(brand_ad_counts))
    /\ UNCHANGED <<brand_ad_counts, deep, expand, classifyVars, selectVars, crawlVars, unitVars>>

NextCompetition == CheckCompetition
SpecCompetition == InitCompetition /\ [][NextCompetition]_vars

(***************************************************************************)
(* run_scan as the market pipeline calls it                                *)
(*                                                                         *)
(* A call either raises or returns a ScanResult.  With the scrape() of     *)
(* meta_library.py:88, which takes no expected_page_name, the call at      *)
(* scanner.py:44 raises TypeError every time: that is the outcome Raised.  *)
(* run_scan is looked up when the pipeline calls it (market_pipeline.py:   *)
(* 286, 329); the outcomes that return are those of a scraper that takes   *)
(* the call.                                                               *)
(***************************************************************************)
TargetBrand == "BrandA"
\* the ads of the library: page_name, product_type and primary_text by ad_id
DeepAdIds == {"a1", "a2", "a3", "a4"}
AdRank(id) == CASE id = "a1" -> 1 [] id = "a2" -> 2 [] id = "a3" -> 3 [] id = "a4" -> 4
Catalogue(id) ==
    CASE id = "a1" -> [page_name |-> "BrandA", product_type |-> "supplement", primary_text |-> CopyOne]
      [] id = "a2" -> [page_name |-> "BrandA", product_type |-> "unknown", primary_text |-> Text("thin", 30)]
      [] id = "a3" -> [page_name |-> "BrandB", product_type |-> "supplement", primary_text |-> CopyOne]
      [] id = "a4" -> [page_name |-> "BrandA", product_type |-> "device", primary_text |-> CopyOne]
PageIds == {"p1", "p2"}

\* the record of ad id scraped at position pos by the crawl numbered crawl
\* (0 is the keyword scan, k the k-th call of run_scan after it)
ScanAd(id, crawl, pos) ==
    [ad_id |-> id, page_name |-> Catalogue(id).page_name,
     product_type |-> Catalogue(id).product_type,
     primary_text |-> Catalogue(id).primary_text,
     crawl |-> crawl, scrape_position |-> pos]

\* what the scraper can collect: ad ids without repetition (merged by
\* ad_id), listed here in the order of the library
ScanIdLists ==
    {ids \in UNION {[1..n -> DeepAdIds] : n \in 0..MaxScanAds} :
        \A i, j \in 1..Len(ids) : i < j => AdRank(ids[i]) < AdRank(ids[j])}

\* what a call of run_scan can do: raise, or have the scraper return ads and
\* the page ids of scraper._found_page_ids
Raised == [raised |-> TRUE]
ScanOutcomes ==
    {Raised} \cup
    {[raised |-> FALSE, ids |-> ids, page_ids |-> pids] :
        ids \in ScanIdLists, pids \in {{}, {"p1"}, {"p1", "p2"}}}

\* the fields a ScanResult keeps of those that run_scan passes to it
ScanResultFields ==
    {"keyword", "country", "scan_date", "ads", "advertisers", "total_fetched",
     "pages_scanned", "selection"}

\* ScanResult(..., ads=ads, ..., found_page_ids=found_page_ids): a keyword
\* that is not a field of the model is dropped
ScanResult(scraped, found_page_ids) ==
    [f \in {"ads", "found_page_ids"} \cap ScanResultFields |->
        IF f = "ads" THEN scraped ELSE found_page_ids]

\* the ScanResult of a call that returns
RunScan(outcome, crawl) ==
    ScanResult([i \in 1..Len(outcome.ids) |-> ScanAd(outcome.ids[i], crawl, i - 1)],
               outcome.page_ids)

IdsOf(records) == {records[i].ad_id : i \in 1..Len(records)}

(***************************************************************************)
(* MarketPipeline._deep_search_brand and the loop body of MarketPipeline.  *)
(* run that calls it for one brand                                         *)
(***************************************************************************)
\* bug: the records of other pages are kept
BrandAdsOf_NoGuard(scan_ads, brand_name) == scan_ads

\* [ad for ad in scan.ads if ad.page_name == brand_name]
BrandAdsOf(scan_ads, brand_name) ==
    SelectSeq(scan_ads, LAMBDA a : a.page_name = brand_name)

\* all_brand_ads[ad.ad_id] = ad on a dict kept as the sequence of its values
\* in insertion order: the value of a key already present is replaced in place
PutAd(all_brand_ads, a) ==
    IF a.ad_id \in IdsOf(all_brand_ads)
    THEN [i \in 1..Len(all_brand_ads) |->
            IF all_brand_ads[i].ad_id = a.ad_id THEN a ELSE all_brand_ads[i]]
    ELSE Append(all_brand_ads, a)

\* for ad in brand_ads: all_brand_ads[ad.ad_id] = ad
RECURSIVE PutAll(_, _, _)
PutAll(all_brand_ads, brand_ads, k) ==
    IF k > Len(brand_ads) THEN all_brand_ads
    ELSE PutAll(PutAd(all_brand_ads, brand_ads[k]), brand_ads, k + 1)

\* bug: every product type passes
FilterAdsByProductType_KeepsAll(records, target) == records

\* filter_ads_by_product_type(ads, target, allow_unknown=True)
FilterAdsByProductType(records, target) ==
    SelectSeq(records, LAMBDA a : a.product_type = target \/ a.product_type = "unknown")

\* the history of a crawl that returned brand_ads: the crawl that first
\* returned each ad id
FirstCrawls(first_crawl, brand_ads, crawl) ==
    [id \in DOMAIN first_crawl \cup IdsOf(brand_ads) |->
        IF id \in DOMAIN first_crawl THEN first_crawl[id] ELSE crawl]

\* one round of "for query in queries" (stage A) on the state d of the call
VariantRound(d, outcome) ==
    LET crawl == d.crawls + 1
    IN  IF outcome.raised
        THEN [d EXCEPT !.crawls = crawl, !.failed = @ \cup {crawl}]
        ELSE
            LET scan == RunScan(outcome, crawl)
                brand_ads == BrandAdsOf(scan.ads, TargetBrand)
                merged == [d EXCEPT
                    !.crawls = crawl,
                    !.all_brand_ads = PutAll(@, brand_ads, 1),
                    !.first_crawl = FirstCrawls(@, brand_ads, crawl),
                    !.others = @ \cup (IdsOf(scan.ads) \ IdsOf(brand_ads)),
                    !.surfaced = @ \cup outcome.page_ids]
            IN  \* scan.found_page_ids raises AttributeError when the result
                \* has no such field; the except clause of the round logs it
                IF "found_page_ids" \in DOMAIN scan
                THEN [merged EXCEPT !.seen_page_ids = @ \cup scan.found_page_ids]
                ELSE merged

\* one round of "for page_id in seen_page_ids" (stage B)
PageRound(d, page_id, outcome) ==
    LET crawl == d.crawls + 1
        crawled == [d EXCEPT !.crawls = crawl, !.page_crawls = Append(@, page_id)]
    IN  IF outcome.raised
        THEN [crawled EXCEPT !.failed = @ \cup {crawl}]
        ELSE
            LET scan == RunScan(outcome, crawl)
                brand_ads == BrandAdsOf(scan.ads, TargetBrand)
            IN  IF brand_ads = <<>> THEN crawled
                ELSE [crawled EXCEPT
                        !.all_brand_ads = PutAll(@, brand_ads, 1),
                        !.first_crawl = FirstCrawls(@, brand_ads, crawl),
                        !.others = @ \cup (IdsOf(scan.ads) \ IdsOf(brand_ads))]

\* stage B over the page ids in the order the set yields them
RECURSIVE PageRoundsFrom(_, _, _, _)
PageRoundsFrom(d, order, outcomes, k) ==
    IF k > Len(order) THEN d
    ELSE PageRoundsFrom(PageRound(d, order[k], outcomes[order[k]]), order, outcomes, k + 1)

\* the orders in which a set can be iterated
OrdersOf(S) ==
    {order \in [1..Cardinality(S) -> S] :
        \A i, j \in 1..Cardinality(S) : order[i] = order[j] => i = j}

\* combined = list(all_brand_ads.values()), filtered to the dominant product
\* type unless that is UNKNOWN
DeepResult(d) ==
    IF d.dominant_type # "unknown"
    THEN FilterAdsByProductType(d.all_brand_ads, d.dominant_type)
    ELSE d.all_brand_ads

\* for ad in keyword_ads + deep_ads: keep the first record of each ad_id
RECURSIVE CombineFrom(_, _, _)
CombineFrom(records, k, combined) ==
    IF k > Len(records) THEN combined
    ELSE CombineFrom(records, k + 1,
            IF records[k].ad_id \in IdsOf(combined) THEN combined
            ELSE Append(combined, records[k]))

\* the ads of the brand that the keyword scan found
KeywordAdLists ==
    {[i \in 1..Len(ids) |-> ScanAd(ids[i], 0, i - 1)] :
        ids \in {l \in ScanIdLists : \A i \in 1..Len(l) : Catalogue(l[i]).page_name = TargetBrand}}

InitDeep ==
    /\ \E dominant \in {"unknown", "supplement"} : \E keyword_ads \in KeywordAdLists :
       \E n \in 1..MaxQueries :
          deep = [pc |-> "stageA", dominant_type |-> dominant, keyword_ads |-> keyword_ads,
                  queries |-> n, crawls |-> 0,
                  all_brand_ads |-> <<>>, seen_page_ids |-> {},
                  deep_ads |-> <<>>, combined |-> <<>>, filtered |-> <<>>,
                  qualifying_count |-> 0,
                  \* history
                  first_crawl |-> [id \in {} |-> 0], others |-> {}, surfaced |-> {},
                  page_crawls |-> <<>>, failed |-> {}]
    /\ expand = [pc |-> "idle"]
    /\ brand_ad_counts = <<>> /\ competition = None
    /\ IdleClassify
    /\ IdleSelect
    /\ IdleCrawl
    /\ IdleUnits

\* stage A: the crawl of the next query variant
VariantCrawl ==
    /\ deep.pc = "stageA"
    /\ deep.crawls < deep.queries
    /\ \E outcome \in ScanOutcomes : deep' = VariantRound(deep, outcome)
    /\ UNCHANGED <<expand, brand_ad_counts, competition, classifyVars, selectVars, crawlVars, unitVars>>

\* stage B, one crawl for each page id collected in stage A, and the return
\* of the deep search
PageCrawlsAndReturn ==
    /\ deep.pc = "stageA"
    /\ deep.crawls = deep.queries
    /\ \E order \in OrdersOf(deep.seen_page_ids) :
       \E outcomes \in [deep.seen_page_ids -> ScanOutcomes] :
          LET d == PageRoundsFrom(deep, order, outcomes, 1)
          IN  deep' = [d EXCEPT !.pc = "returned", !.deep_ads = DeepResult(d)]
    /\ UNCHANGED <<expand, brand_ad_counts, competition, classifyVars, selectVars, crawlVars, unitVars>>

\* MarketPipeline.run: combine the keyword ads with the deep ads, filter and
\* count
CombineAndCount ==
    /\ deep.pc = "returned"
    /\ LET combined == CombineFrom(deep.keyword_ads \o deep.deep_ads, 1, <<>>)
           filtered == IF deep.dominant_type # "unknown"
                       THEN FilterAdsByProductType(combined, deep.dominant_type)
                       ELSE combined
       IN  deep' = [deep EXCEPT !.pc = "done", !.combined = combined,
                                !.filtered = filtered,
                                !.qualifying_count = Len(filtered)]
    /\ UNCHANGED <<expand, brand_ad_counts, competition, classifyVars, selectVars, crawlVars, unitVars>>

NextDeep == VariantCrawl \/ PageCrawlsAndReturn \/ CombineAndCount
SpecDeep == InitDeep /\ [][NextDeep]_vars

(***************************************************************************)
(* MarketPipeline._maybe_expand_keywords: the scans of the related         *)
(* keywords and the merge across keywords                                  *)
(***************************************************************************)
PrimaryKeyword == "kw0"
\* what generate_related_keywords can return: any non-empty strings, the
\* primary keyword and repetitions included
Keywords == {"kw0", "kw1", "kw2"}

\* all_ads_by_keyword[kw] = ads on a dict kept as the sequence of its items
\* in insertion order
SetKeyword(by_keyword, kw, records) ==
    IF \E i \in 1..Len(by_keyword) : by_keyword[i].keyword = kw
    THEN [i \in 1..Len(by_keyword) |->
            IF by_keyword[i].keyword = kw
            THEN [keyword |-> kw, ads |-> records] ELSE by_keyword[i]]
    ELSE Append(by_keyword, [keyword |-> kw, ads |-> records])

\* bug: a record whose ad_id was seen before still counts for its keyword
DedupStep_CountsSeen(kw, a, acc) ==
    IF a.ad_id \in acc.seen_ids
    THEN [acc EXCEPT !.contribution_counts = [@ EXCEPT ![kw] = @ + 1]]
    ELSE [seen_ids |-> acc.seen_ids \cup {a.ad_id},
          deduplicated |-> Append(acc.deduplicated, a),
          contribution_counts |-> [acc.contribution_counts EXCEPT ![kw] = @ + 1]]

\* the body of "for ad in ads" in deduplicate_ads_across_keywords
DedupStep(kw, a, acc) ==
    IF a.ad_id \in acc.seen_ids THEN acc
    ELSE [seen_ids |-> acc.seen_ids \cup {a.ad_id},
          deduplicated |-> Append(acc.deduplicated, a),
          contribution_counts |-> [acc.contribution_counts EXCEPT ![kw] = @ + 1]]

\* the inner loop of deduplicate_ads_across_keywords for one keyword
RECURSIVE DedupKeywordFrom(_, _, _, _)
DedupKeywordFrom(kw, records, k, acc) ==
    IF k > Len(records) THEN acc
    ELSE DedupKeywordFrom(kw, records, k + 1, DedupStep(kw, records[k], acc))

RECURSIVE DedupKeywordsFrom(_, _, _)
DedupKeywordsFrom(by_keyword, k, acc) ==
    IF k > Len(by_keyword) THEN acc
    ELSE DedupKeywordsFrom(by_keyword, k + 1,
            DedupKeywordFrom(by_keyword[k].keyword, by_keyword[k].ads, 1, acc))

\* deduplicate_ads_across_keywords(all_ads_by_keyword)
DeduplicateAdsAcrossKeywords(by_keyword) ==
    DedupKeywordsFrom(by_keyword, 1,
        [seen_ids |-> {}, deduplicated |-> <<>>,
         contribution_counts |->
            [kw \in {by_keyword[i].keyword : i \in 1..Len(by_keyword)} |-> 0]])

\* one round of "for kw in related"
RelatedRound(e, outcome) ==
    LET scan_no == e.scans + 1
        kw == e.related[scan_no]
    IN  IF outcome.raised
        THEN [e EXCEPT !.scans = scan_no,
                       !.all_ads_by_keyword = SetKeyword(@, kw, <<>>),
                       !.failed = @ \cup {scan_no}]
        ELSE LET related_scan == RunScan(outcome, scan_no)
             IN  [e EXCEPT !.scans = scan_no,
                           !.all_ads_by_keyword = SetKeyword(@, kw, related_scan.ads),
                           !.completed = @ \cup IdsOf(related_scan.ads)]

\* the call is made on a sparse scan result (fewer than 20 ads or fewer than
\* 5 advertisers), for which at least one related keyword was generated
InitExpand ==
    /\ \E primary_ids \in ScanIdLists : \E n \in 1..MaxRelated :
       \E related \in [1..n -> Keywords] :
          LET primary_ads == [i \in 1..Len(primary_ids) |-> ScanAd(primary_ids[i], 0, i - 1)]
          IN  expand = [pc |-> "scan", related |-> related, scans |-> 0,
                        all_ads_by_keyword |->
                            <<[keyword |-> PrimaryKeyword, ads |-> primary_ads]>>,
                        deduplicated_ads |-> <<>>,
                        contributions |-> [kw \in {} |-> 0],
                        \* history
                        completed |-> IdsOf(primary_ads), failed |-> {}]
    /\ deep = [pc |-> "idle"]
    /\ brand_ad_counts = <<>> /\ competition = None
    /\ IdleClassify
    /\ IdleSelect
    /\ IdleCrawl
    /\ IdleUnits

\* the scan of the next related keyword
RelatedScan ==
    /\ expand.pc = "scan"
    /\ expand.scans < Len(expand.related)
    /\ \E outcome \in {o \in ScanOutcomes : o.raised \/ o.page_ids = {}} :
          expand' = RelatedRound(expand, outcome)
    /\ UNCHANGED <<deep, brand_ad_counts, competition, classifyVars, selectVars, crawlVars, unitVars>>

\* after the last scan: deduplicate across keywords and update the scan
\* result
DeduplicateAcrossKeywords ==
    /\ expand.pc = "scan"
    /\ expand.scans = Len(expand.related)
    /\ LET merged == DeduplicateAdsAcrossKeywords(expand.all_ads_by_keyword)
       IN  expand' = [expand EXCEPT !.pc = "done",
                                    !.deduplicated_ads = merged.deduplicated,
                                    !.contributions = merged.contribution_counts]
    /\ UNCHANGED <<deep, brand_ad_counts, competition, classifyVars, selectVars, crawlVars, unitVars>>

NextExpand == RelatedScan \/ DeduplicateAcrossKeywords
SpecExpand == InitExpand /\ [][NextExpand]_vars

\* the multi-query operations of the market pipeline
InitMultiQuery == InitDeep \/ InitExpand
NextMultiQuery == NextDeep \/ NextExpand
SpecMultiQuery == InitMultiQuery /\ [][NextMultiQuery]_vars

(***************************************************************************)
(* MarketPipeline.run, from the scan stage to the MarketResult             *)
(*                                                                         *)
(* The scan result is taken as it stands at market_pipeline.py:141: its    *)
(* ads filtered to the dominant product type and its advertisers ranked.   *)
(* An advertiser of it is known by its page_name, by the number of ads     *)
(* that line 173 counts for it (keyword ads and deep ads, combined and     *)
(* filtered) and by the ads that select_ads_for_brand picks among them.    *)
(***************************************************************************)
\* most advertisers of a scan result
MaxAdvertisers == 3
\* values of top_brands (default 5)
TopBrandsValues == {0, 1, 3}

MarketBrands == <<"Brand1", "Brand2", "Brand3", "Brand4">>
\* the number of ads line 173 can count for a brand, on both sides of the
\* threshold
PoolSizes == {BLUE_OCEAN_THRESHOLD - 1, BLUE_OCEAN_THRESHOLD}

\* the copy of a selected ad: its first 500 characters and the rest
Copy(head, rest) == [head |-> head, rest |-> rest]
\* what a selected ad can be: its copy, and whether AdFilter._process_single
\* lets it through to the duplicate check (long copy, usable transcript) or
\* filters it out before (short copy)
Pick(text, long_enough) == [text |-> text, long_enough |-> long_enough]
LongOne == Pick(Copy("h1", "r1"), TRUE)
LongOneOtherEnd == Pick(Copy("h1", "r2"), TRUE)
LongTwo == Pick(Copy("h2", "r1"), TRUE)
ShortOne == Pick(Copy("h1", "r1"), FALSE)
\* what select_ads_for_brand can return for a brand that has enough ads
PickLists ==
    {<<>>, <<LongOne>>, <<LongTwo>>, <<LongOne, LongOneOtherEnd>>,
     <<LongOne, LongTwo>>, <<LongTwo, LongOne>>, <<ShortOne, LongOne>>}

\* the picks taken into account for a brand below the threshold
SmallPoolPicks == {<<>>, <<LongOne>>}

PickId(b, k) == ToString(b) \o "." \o ToString(k)

\* run_scan called with the keywords of scanner.py:44 on a scraper whose
\* scrape takes the parameters of meta_library.py:88
ScrapeParameters == {"query", "page_id"}
ScrapeCallKeywords == {"query", "page_id", "expected_page_name"}
\* a keyword argument that the function does not take raises TypeError
ScrapeCallRaises(passed, taken) == ~(passed \subseteq taken)

\* scan_result.advertisers[:top_brands]
TopAdvertisers(advertisers, top_brands) ==
    SubSeq(advertisers, 1, Min(top_brands, Len(advertisers)))

\* MarketResult(...) as run and _handle_blue_ocean build it
MarketResult(advertisers, brand_reports, competition_level, blue_ocean_result) ==
    [total_advertisers |-> Len(advertisers),
     brands_analyzed |-> Len(brand_reports),
     brand_reports |-> brand_reports,
     competition_level |-> competition_level,
     blue_ocean_result |-> blue_ocean_result]

\* bug: brands below the threshold are selected as well
SelectBrandsFrom_NoThreshold(top_advertisers, counts, k, selections) ==
    [i \in 1..Len(SelectSeq(top_advertisers, LAMBDA a : a.picks # <<>>)) |->
        LET a == SelectSeq(top_advertisers, LAMBDA x : x.picks # <<>>)[i]
        IN  [page_name |-> a.page_name, selected_ads |-> a.picks]]

\* the count of a brand in brand_ad_counts: brand_ad_counts.get(brand_name, 0)
CountOf(counts, brand_name) ==
    LET hits == SelectSeq(counts, LAMBDA e : e.brand = brand_name)
    IN  IF hits = <<>> THEN 0 ELSE hits[1].count

\* _select_brands_from_deep_ads: the loop over top_advertisers
RECURSIVE SelectBrandsFrom(_, _, _, _)
SelectBrandsFrom(top_advertisers, counts, k, selections) ==
    IF k > Len(top_advertisers) THEN selections
    ELSE LET a == top_advertisers[k]
         IN  SelectBrandsFrom(top_advertisers, counts, k + 1,
                IF CountOf(counts, a.page_name) < BLUE_OCEAN_THRESHOLD THEN selections
                ELSE IF a.picks # <<>>
                     THEN Append(selections,
                                 [page_name |-> a.page_name, selected_ads |-> a.picks])
                     ELSE selections)

\* AdFilter._content_hash: the digest of the first 500 characters of the copy
ContentHash(text) == text.head

\* the hashes the filter of self.pipeline holds when a brand's analysis
\* starts: run_from_scraped_ads does not call AdFilter.reset
SeenAtStart(seen_hashes) == seen_hashes

\* AdFilter._process_single on one selected ad, with the duplicate check
ProcessSingle(f, a, brand) ==
    IF ~a.long_enough
    THEN [f EXCEPT !.contents = Append(@,
            [ad_id |-> a.ad_id, brand |-> brand, status |-> "filtered_out",
             filter_reason |-> "primary_copy_under_500_words",
             hash |-> ContentHash(a.text)])]
    ELSE IF ContentHash(a.text) \in f.seen_hashes
    THEN [f EXCEPT !.contents = Append(@,
            [ad_id |-> a.ad_id, brand |-> brand, status |-> "filtered_out",
             filter_reason |-> "duplicate", hash |-> ContentHash(a.text)])]
    ELSE [seen_hashes |-> f.seen_hashes \cup {ContentHash(a.text)},
          contents |-> Append(f.contents,
            [ad_id |-> a.ad_id, brand |-> brand, status |-> "downloaded",
             filter_reason |-> "None", hash |-> ContentHash(a.text)])]

\* AdFilter.process_ads: the loop over the scraped ads of one brand
RECURSIVE ProcessAds(_, _, _, _)
ProcessAds(f, scraped_ads, brand, k) ==
    IF k > Len(scraped_ads) THEN f
    ELSE ProcessAds(ProcessSingle(f, scraped_ads[k], brand), scraped_ads, brand, k + 1)

\* how one call of _analyze_brand can end: with a report, or raising before
\* or after the filter stage of the pipeline
AnalysisOutcomes == {"report", "raises_before_filter", "raises_after_filter"}

InitMarket ==
    /\ \E n \in 0..MaxAdvertisers : \E sizes \in [1..n -> PoolSizes] :
       \E picks \in [1..n -> PickLists] :
       \E from_scan \in BOOLEAN : \E top_brands \in TopBrandsValues :
          /\ \A b \in 1..n : sizes[b] < BLUE_OCEAN_THRESHOLD => picks[b] \in SmallPoolPicks
          /\ market =
               [pc |-> "scan", from_scan |-> from_scan, top_brands |-> top_brands,
                advertisers |->
                    [b \in 1..n |->
                        [page_name |-> MarketBrands[b], qualifying_ads |-> sizes[b],
                         picks |-> [k \in 1..Len(picks[b]) |->
                                       [ad_id |-> PickId(b, k),
                                        text |-> picks[b][k].text,
                                        long_enough |-> picks[b][k].long_enough]]]],
                top_advertisers |-> <<>>, brand_ad_counts |-> <<>>,
                competition_level |-> "None", qualifying_brands |-> <<>>,
                brand_selections |-> <<>>, analysed |-> 0, brand_reports |-> <<>>,
                seen_hashes |-> {}, result |-> None,
                \* history: what the filter held when each analysis started,
                \* and every AdContent that a filter stage produced
                seen_before |-> <<>>, contents |-> <<>>]
    /\ aggregation = [pc |-> "idle"] /\ discovery = [pc |-> "idle"]
    /\ generated = [pc |-> "idle"]
    /\ IdleClassify
    /\ IdleSelect
    /\ IdleCrawl
    /\ IdleMarket

MarketUnchanged ==
    UNCHANGED <<classifyVars, selectVars, crawlVars, marketVars,
                aggregation, discovery, generated>>

\* _run_scan_stage with from_scan: the ScanResult is loaded from the file
LoadScan ==
    /\ market.pc = "scan" /\ market.from_scan
    /\ market' = [market EXCEPT !.pc = "deep",
                    !.top_advertisers = TopAdvertisers(market.advertisers, market.top_brands)]
    /\ MarketUnchanged

\* _run_scan_stage without from_scan: run_scan calls scraper.scrape; nothing
\* between that call and the caller of run catches what it raises
FreshScan ==
    /\ market.pc = "scan" /\ ~market.from_scan
    /\ market' = IF ScrapeCallRaises(ScrapeCallKeywords, ScrapeParameters)
                 THEN [market EXCEPT !.pc = "raised"]
                 ELSE [market EXCEPT !.pc = "deep",
                         !.top_advertisers =
                             TopAdvertisers(market.advertisers, market.top_brands)]
    /\ MarketUnchanged

\* one round of "for advertiser in top_advertisers": the count of line 173
DeepSearchRound ==
    /\ market.pc = "deep"
    /\ Len(market.brand_ad_counts) < Len(market.top_advertisers)
    /\ LET a == market.top_advertisers[Len(market.brand_ad_counts) + 1]
       IN  market' = [market EXCEPT !.brand_ad_counts =
                         Append(@, CountEntry(a.page_name, a.qualifying_ads))]
    /\ MarketUnchanged

\* _check_competition_level after the loop
CompetitionCheck ==
    /\ market.pc = "deep"
    /\ Len(market.brand_ad_counts) = Len(market.top_advertisers)
    /\ LET c == CheckCompetitionLevel(market.brand_ad_counts)
       IN  market' = [market EXCEPT
                        !.pc = IF c.level = "blue_ocean" THEN "blue_ocean" ELSE "select",
                        !.competition_level = c.level,
                        !.qualifying_brands = c.qualifying]
    /\ MarketUnchanged

\* _handle_blue_ocean: the document of the blue ocean and the MarketResult
HandleBlueOcean ==
    /\ market.pc = "blue_ocean"
    /\ market' = [market EXCEPT !.pc = "returned",
                    !.result = Some(MarketResult(market.advertisers, <<>>,
                                                 "blue_ocean", "doc"))]
    /\ MarketUnchanged

\* _select_brands_from_deep_ads, and the return of run when it selects no
\* brand
SelectBrands ==
    /\ market.pc = "select"
    /\ LET selections == SelectBrandsFrom(market.top_advertisers,
                                          market.brand_ad_counts, 1, <<>>)
       IN  market' =
             IF selections = <<>>
             THEN [market EXCEPT !.pc = "returned",
                     !.result = Some(MarketResult(market.advertisers, <<>>,
                                                  market.competition_level, "None"))]
             ELSE [market EXCEPT !.pc = "analyze", !.brand_selections = selections]
    /\ MarketUnchanged

\* one round of "for i, selection in enumerate(brand_selections, 1)":
\* _analyze_brand in its try
AnalyzeBrand ==
    /\ market.pc = "analyze"
    /\ market.analysed < Len(market.brand_selections)
    /\ \E outcome \in AnalysisOutcomes :
          LET sel == market.brand_selections[market.analysed + 1]
              start == SeenAtStart(market.seen_hashes)
              f == IF outcome = "raises_before_filter"
                   THEN [seen_hashes |-> start, contents |-> <<>>]
                   ELSE ProcessAds([seen_hashes |-> start, contents |-> <<>>],
                                   sel.selected_ads, sel.page_name, 1)
          IN  market' = [market EXCEPT
                  !.analysed = @ + 1,
                  !.seen_hashes = f.seen_hashes,
                  !.seen_before = Append(@, start),
                  !.contents = @ \o f.contents,
                  !.brand_reports =
                      IF outcome = "report"
                      THEN Append(@, [page_name |-> sel.page_name,
                                      contents |-> f.contents])
                      ELSE @]
    /\ MarketUnchanged

\* the return of run after the last brand
ReturnResult ==
    /\ market.pc = "analyze"
    /\ market.analysed = Len(market.brand_selections)
    /\ market' = [market EXCEPT !.pc = "returned",
                    !.result = Some(MarketResult(market.advertisers, market.brand_reports,
                                                 market.competition_level, "None"))]
    /\ MarketUnchanged

NextMarket ==
    \/ LoadScan \/ FreshScan \/ DeepSearchRound \/ CompetitionCheck
    \/ HandleBlueOcean \/ SelectBrands \/ AnalyzeBrand \/ ReturnResult
SpecMarket == InitMarket /\ [][NextMarket]_vars

(***************************************************************************)
(* aggregate_by_advertiser and rank_advertisers                            *)
(***************************************************************************)
\* longest list of ads given to aggregate_by_advertiser
MaxAggAds == 3

\* what an ad of the list can be, apart from its ad_id: page_name,
\* started_running, impression_lower
AggShapes ==
    {<<"A", IsoDate(NowDay - 10, 0, ""), 1000>>,
     <<"A", IsoDate(NowDay - 38, 0, "Z"), 10>>,
     <<"A", NoDate, 0>>,
     <<"B", MalformedDate, 10>>,
     <<"B", IsoDate(NowDay - 100, 18, "+05:00"), 1000>>,
     <<"B", IsoDate(NowDay + 5, 0, ""), 0>>,
     <<"C", EmptyDate, 1000>>}

\* the real time of the call, read by datetime.now(timezone.utc)
WallClocks == {NowHours, NowHours + 24 * 400}

\* bool(ad.started_running): a string that is not empty
HasStartedRunning(a) == a.started_running.kind \in {"iso", "malformed"}

RECURSIVE MostRecentFrom(_, _, _)
MostRecentFrom(list, k, most_recent) ==
    IF k > Len(list) THEN most_recent
    ELSE LET launch == ParseLaunch(list[k].started_running)
         IN  MostRecentFrom(list, k + 1,
                IF launch # None /\ (most_recent = None \/ launch[1] > most_recent[1])
                THEN launch ELSE most_recent)

\* bug: the reference time is the real time of the call
InferNow_WallClock(list, wall_clock) ==
    [now |-> wall_clock, source |-> "wall clock"]

\* the branch "if now is None": the most recent launch plus one day, or the
\* real time when no launch date parses
InferNow(list, wall_clock) ==
    LET most_recent == MostRecentFrom(list, 1, None)
    IN  IF most_recent # None
        THEN [now |-> most_recent[1] + 24, source |-> "launch"]
        ELSE [now |-> wall_clock, source |-> "wall clock"]

\* AdvertiserEntry(page_name=page_name, ...) with the defaults of the model
NewEntry(page_name) ==
    [page_name |-> page_name, ad_count |-> 0, active_ad_count |-> 0,
     recent_ad_count |-> 0, total_impression_lower |-> 0,
     earliest_launch |-> None, latest_launch |-> None, relevance_score |-> 0]

\* bug: an ad counts as recent whenever its launch date parses
AddAd_RecentWhenDated(entry, a, thirty_days_ago) ==
    LET launch == ParseLaunch(a.started_running)
    IN  [entry EXCEPT
            !.ad_count = @ + 1,
            !.active_ad_count = IF HasStartedRunning(a) THEN @ + 1 ELSE @,
            !.recent_ad_count = IF launch # None THEN @ + 1 ELSE @,
            !.earliest_launch =
                IF launch # None /\ (@ = None \/ launch[1] < @[1]) THEN launch ELSE @,
            !.latest_launch =
                IF launch # None /\ (@ = None \/ launch[1] > @[1]) THEN launch ELSE @,
            !.total_impression_lower = @ + a.impression_lower]

\* the body of "for ad in ads" on the entry of the ad's page_name
AddAd(entry, a, thirty_days_ago) ==
    LET launch == ParseLaunch(a.started_running)
    IN  [entry EXCEPT
            !.ad_count = @ + 1,
            !.active_ad_count = IF HasStartedRunning(a) THEN @ + 1 ELSE @,
            !.recent_ad_count =
                IF launch # None /\ launch[1] >= thirty_days_ago THEN @ + 1 ELSE @,
            !.earliest_launch =
                IF launch # None /\ (@ = None \/ launch[1] < @[1]) THEN launch ELSE @,
            !.latest_launch =
                IF launch # None /\ (@ = None \/ launch[1] > @[1]) THEN launch ELSE @,
            !.total_impression_lower = @ + a.impression_lower]

\* the dict advertisers, kept as the sequence of its values in insertion
\* order
RECURSIVE AggregateFrom(_, _, _, _)
AggregateFrom(list, k, thirty_days_ago, advertisers) ==
    IF k > Len(list) THEN advertisers
    ELSE LET a == list[k]
             known == \E i \in 1..Len(advertisers) : advertisers[i].page_name = a.page_name
             with == IF known THEN advertisers
                     ELSE Append(advertisers, NewEntry(a.page_name))
         IN  AggregateFrom(list, k + 1, thirty_days_ago,
                [i \in 1..Len(with) |->
                    IF with[i].page_name = a.page_name
                    THEN AddAd(with[i], a, thirty_days_ago) ELSE with[i]])

\* aggregate_by_advertiser(ads, now) called at the real time wall_clock
AggregateByAdvertiser(list, now_arg, wall_clock) ==
    LET reference == IF now_arg = None THEN InferNow(list, wall_clock)
                     ELSE [now |-> now_arg[1], source |-> "argument"]
    IN  [reference |-> reference,
         entries |-> AggregateFrom(list, 1, reference.now - 30 * 24, <<>>)]

\* math.log10(total_impressions) * 30, in thousandths rounded down, for the
\* totals that the ads of AggShapes add up to
Log10Times30(total) ==
    CASE total = 10 -> 30000 [] total = 20 -> 39030 [] total = 30 -> 44313
      [] total = 40 -> 48061 [] total = 1000 -> 90000 [] total = 1010 -> 90129
      [] total = 1020 -> 90258 [] total = 1030 -> 90385 [] total = 2000 -> 99030
      [] total = 2010 -> 99095 [] total = 2020 -> 99160 [] total = 3000 -> 104313
      [] total = 3010 -> 104356 [] total = 4000 -> 108061

\* int(recent_score + impression_score + active_bonus)
RelevanceScore(entry) ==
    LET recent_ratio == IF entry.ad_count > 0
                        THEN (20000 * entry.recent_ad_count) \div entry.ad_count ELSE 0
        recent_score == recent_ratio + 1000 * Min(entry.recent_ad_count * 2, 20)
        impression_score == IF entry.total_impression_lower > 0
                            THEN Min(Log10Times30(entry.total_impression_lower), 200000)
                            ELSE 0
        active_bonus == 1000 * Min(entry.active_ad_count * 2, 20)
    IN  (recent_score + impression_score + active_bonus) \div 1000

\* the place of an entry in a list sorted by relevance_score, descending,
\* entries of equal score in their prior order
RankInsert(sorted, entry) ==
    LET before == SelectSeq(sorted, LAMBDA e : e.relevance_score >= entry.relevance_score)
        after == SelectSeq(sorted, LAMBDA e : e.relevance_score < entry.relevance_score)
    IN  before \o <<entry>> \o after

RECURSIVE RankSortFrom(_, _, _)
RankSortFrom(advertisers, k, sorted) ==
    IF k > Len(advertisers) THEN sorted
    ELSE RankSortFrom(advertisers, k + 1, RankInsert(sorted, advertisers[k]))

\* the list after rank_advertisers(advertisers): every entry has its score
\* assigned, and advertisers.sort(...) has ordered the list itself
RankAdvertisers(advertisers) ==
    RankSortFrom([i \in 1..Len(advertisers) |->
                     [advertisers[i] EXCEPT !.relevance_score = RelevanceScore(advertisers[i])]],
                 1, <<>>)

InitAggregate ==
    /\ \E n \in 0..MaxAggAds : \E shapes \in [1..n -> AggShapes] :
       \E now_arg \in {None, Some(NowHours)} : \E wall_clock \in WallClocks :
          aggregation =
            [pc |-> "input",
             ads |-> [i \in 1..n |-> ScrapedAd(IdOf(i), shapes[i][1], NoText,
                                               shapes[i][2], shapes[i][3])],
             now |-> now_arg, wall_clock |-> wall_clock,
             reference |-> None,
             \* the list that aggregate_by_advertiser returned and that
             \* the caller passes to rank_advertisers
             advertisers |-> <<>>,
             \* what rank_advertisers returned
             ranked |-> None,
             \* history: the list as it was when rank_advertisers was called
             passed |-> None]
    /\ market = [pc |-> "idle"] /\ discovery = [pc |-> "idle"]
    /\ generated = [pc |-> "idle"]
    /\ IdleClassify
    /\ IdleSelect
    /\ IdleCrawl
    /\ IdleMarket

AggregateUnchanged ==
    UNCHANGED <<classifyVars, selectVars, crawlVars, marketVars,
                market, discovery, generated>>

\* advertisers = aggregate_by_advertiser(ads, now)
Aggregate ==
    /\ aggregation.pc = "input"
    /\ LET r == AggregateByAdvertiser(aggregation.ads, aggregation.now,
                                      aggregation.wall_clock)
       IN  aggregation' = [aggregation EXCEPT !.pc = "aggregated",
                              !.reference = Some(r.reference),
                              !.advertisers = r.entries]
    /\ AggregateUnchanged

\* ranked = rank_advertisers(advertisers): the scores are assigned to the
\* entries of the list passed, the list is sorted in place and returned
Rank ==
    /\ aggregation.pc = "aggregated"
    /\ LET r == RankAdvertisers(aggregation.advertisers)
       IN  aggregation' = [aggregation EXCEPT !.pc = "ranked",
                              !.passed = Some(aggregation.advertisers),
                              !.advertisers = r,
                              !.ranked = Some(r)]
    /\ AggregateUnchanged

NextAggregate == Aggregate \/ Rank
SpecAggregate == InitAggregate /\ [][NextAggregate]_vars

(***************************************************************************)
(* Strategy 1 of the selector discovery script: the walk up from the first *)
(* ad-detail anchor                                                        *)
(*                                                                         *)
(* The page is known by the number of its qualifying anchors (an ad        *)
(* library link with an ad id of 10 digits or more) and by the ancestors   *)
(* of the first of them, from its parent up to the root of the document.   *)
(* An ancestor is known by the number of children of its parent whose      *)
(* first ad library link qualifies (siblingsWithAds) and by the selector   *)
(* that can be built for it: from its role, from the role of its parent,   *)
(* from a class that looks stable, or none.                                *)
(***************************************************************************)
\* the walk inspects the ancestors of depth 0 .. WalkLimit - 1
WalkLimit == 8
\* most ancestors of the first anchor
MaxAncestors == 10

Ancestor(siblings_with_ads, selector) ==
    [siblings_with_ads |-> siblings_with_ads, selector |-> selector]
\* an ancestor whose parent has no other child with an ad, and for which no
\* selector can be built
PlainAncestor == Ancestor(1, "none")
AncestorShapes ==
    {Ancestor(2, "role"), Ancestor(2, "parent_role"), Ancestor(2, "class"),
     Ancestor(2, "none"), Ancestor(1, "role"), Ancestor(0, "class")}

\* bug: one sibling with an ad is enough on any page
IsCardLevel_OneSibling(siblings_with_ads, n_links) == siblings_with_ads >= 1

\* siblingsWithAds >= 2 || (siblingsWithAds >= 1 && adLinks.length === 1)
IsCardLevel(siblings_with_ads, n_links) ==
    siblings_with_ads >= 2 \/ (siblings_with_ads >= 1 /\ n_links = 1)

\* the loop "for (let depth = 0; depth < 8; depth++)" from depth on.  The
\* element of depth d is ancestors[d + 1]; the last ancestor is the root,
\* which has no parent.
RECURSIVE WalkUpFrom(_, _, _, _)
WalkUpFrom(ancestors, n_links, depth, w) ==
    IF depth >= WalkLimit \/ depth + 1 > Len(ancestors) THEN w
    ELSE LET el == ancestors[depth + 1]
             inspected == [w EXCEPT !.inspected = Append(@, depth)]
         IN  IF depth + 1 = Len(ancestors)
             THEN WalkUpFrom(ancestors, n_links, depth + 1, inspected)
             ELSE IF IsCardLevel(el.siblings_with_ads, n_links)
             THEN IF el.selector # "none"
                  THEN [inspected EXCEPT
                          !.card_levels = Append(@, depth),
                          !.selector = Some([kind |-> el.selector, depth |-> depth])]
                  ELSE WalkUpFrom(ancestors, n_links, depth + 1,
                          [inspected EXCEPT !.card_levels = Append(@, depth)])
             ELSE WalkUpFrom(ancestors, n_links, depth + 1, inspected)

\* strategy 1: the selector it returns, or None when the script goes on to
\* strategy 2
StrategyOne(ancestors, n_links) ==
    IF n_links > 0
    THEN WalkUpFrom(ancestors, n_links, 0,
                    [inspected |-> <<>>, card_levels |-> <<>>, selector |-> None])
    ELSE [inspected |-> <<>>, card_levels |-> <<>>, selector |-> None]

InitDiscovery ==
    /\ \E n_links \in 0..2 : \E n \in 1..MaxAncestors :
       \E p1, p2 \in 0..n : \E s1, s2 \in AncestorShapes :
          \* a page without qualifying anchor has no first anchor
          /\ n_links = 0 => (n = 1 /\ p1 = 0 /\ p2 = 0)
          \* at most two ancestors, p1 and p2, are not plain (0: none)
          /\ p1 = 0 => s1 = Ancestor(2, "role")
          /\ p2 = 0 => s2 = Ancestor(2, "role")
          \* no more siblings with an ad than the page has such anchors
          /\ p1 # 0 => s1.siblings_with_ads <= n_links
          /\ p2 # 0 => s2.siblings_with_ads <= n_links
          /\ discovery =
               [pc |-> "page", n_links |-> n_links,
                ancestors |-> [i \in 1..n |->
                                  IF i = p1 THEN s1 ELSE IF i = p2 THEN s2
                                  ELSE PlainAncestor],
                inspected |-> <<>>, card_levels |-> <<>>, selector |-> None]
    /\ market = [pc |-> "idle"] /\ aggregation = [pc |-> "idle"]
    /\ generated = [pc |-> "idle"]
    /\ IdleClassify
    /\ IdleSelect
    /\ IdleCrawl
    /\ IdleMarket

\* the part of the script of page.evaluate that is strategy 1
RunStrategyOne ==
    /\ discovery.pc = "page"
    /\ LET w == StrategyOne(discovery.ancestors, discovery.n_links)
       IN  discovery' = [discovery EXCEPT !.pc = "done",
                            !.inspected = w.inspected,
                            !.card_levels = w.card_levels,
                            !.selector = w.selector]
    /\ UNCHANGED <<classifyVars, selectVars, crawlVars, marketVars,
                   market, aggregation, generated>>

NextDiscovery == RunStrategyOne
SpecDiscovery == InitDiscovery /\ [][NextDiscovery]_vars

(***************************************************************************)
(* MetaAdsScraper._generate_id on the cards of one crawl session           *)
(*                                                                         *)
(* A raw card has no ad_id when none of its links is an ad-detail link.    *)
(* Its primary_text is known by its first 200 characters and by what       *)
(* follows them; a key that the extraction script did not set is None.     *)
(***************************************************************************)
\* most raw cards of one extraction
MaxRawCards == 2

RawText(first200, rest) == [first200 |-> first200, rest |-> rest]
RawTexts ==
    {None, Some(RawText("C", "")), Some(RawText("BC", "")),
     Some(RawText("long copy", "ending one")), Some(RawText("long copy", "ending two"))}
RawPageNames == {"A", "AB"}
RawMedia == {None, Some("m1"), Some("m2")}

\* the cards that the extraction script returns: those with an ad_id, a
\* primary_text or a media_url
RawCards ==
    {[page_name |-> p, primary_text |-> t, media_url |-> m] :
        p \in RawPageNames, t \in RawTexts, m \in RawMedia} \
    {[page_name |-> p, primary_text |-> None, media_url |-> None] : p \in RawPageNames}

\* raw.get('primary_text', '')[:200]
TextPrefix(raw) == IF raw.primary_text = None THEN "" ELSE raw.primary_text[1].first200

\* f"{raw.get('page_name', '')}{raw.get('primary_text', '')[:200]}"
IdContent(raw) == raw.page_name \o TextPrefix(raw)

\* hashlib.sha256(content.encode()).hexdigest()[:16]: the digest, taken to
\* differ whenever the contents differ
GenerateId(raw) == [sha256_16 |-> IdContent(raw)]

\* the ScrapedAd of a raw card without ad_id
ExtractedAd(raw, pos) ==
    [ad_id |-> GenerateId(raw), page_name |-> raw.page_name,
     primary_text |-> raw.primary_text, media_url |-> raw.media_url,
     scrape_position |-> pos]

\* the merge of the crawl loop: an ad whose ad_id was seen is dropped
RECURSIVE MergeSessionFrom(_, _, _)
MergeSessionFrom(new_ads, k, merged) ==
    IF k > Len(new_ads) THEN merged
    ELSE MergeSessionFrom(new_ads, k + 1,
            IF \E i \in 1..Len(merged) : merged[i].ad_id = new_ads[k].ad_id
            THEN merged ELSE Append(merged, new_ads[k]))

InitGenerate ==
    /\ \E n \in 1..MaxRawCards : \E raw_ads \in [1..n -> RawCards] :
          generated = [pc |-> "raw", raw_ads |-> raw_ads, new_ads |-> <<>>, ads |-> <<>>]
    /\ market = [pc |-> "idle"] /\ aggregation = [pc |-> "idle"]
    /\ discovery = [pc |-> "idle"]
    /\ IdleClassify
    /\ IdleSelect
    /\ IdleCrawl
    /\ IdleMarket

GenerateUnchanged ==
    UNCHANGED <<classifyVars, selectVars, crawlVars, marketVars,
                market, aggregation, discovery>>

\* _extract_ad_cards: the loop "for raw in raw_ads" on cards without ad_id
ExtractCards ==
    /\ generated.pc = "raw"
    /\ generated' = [generated EXCEPT !.pc = "extracted",
                        !.new_ads = [i \in 1..Len(generated.raw_ads) |->
                                        ExtractedAd(generated.raw_ads[i], i - 1)]]
    /\ GenerateUnchanged

\* _scrape_ads: the merge of the extracted ads into the ads of the session
MergeSession ==
    /\ generated.pc = "extracted"
    /\ generated' = [generated EXCEPT !.pc = "merged",
                        !.ads = MergeSessionFrom(generated.new_ads, 1, <<>>)]
    /\ GenerateUnchanged

NextGenerate == ExtractCards \/ MergeSession
SpecGenerate == InitGenerate /\ [][NextGenerate]_vars

(***************************************************************************)
(* Claims about classify_ad                                                *)
(***************************************************************************)
Classified == result # None
Undated == ad.started_running.kind \in {"none", "empty", "malformed"}
Age == DaysSinceLaunch(ad.started_running, now)[1]
\* every threshold of the config in force has its default value
DefaultThresholds ==
    \A k \in DOMAIN DefaultSelection : CfgGet(config, k) = DefaultSelection[k]

TierTable(age, imps) ==
    IF imps > 0
    THEN IF age <= 14 /\ imps >= 50000 THEN "P1_ACTIVE_WINNER"
         ELSE IF age <= 30 /\ imps >= 10000 THEN "P2_PROVEN_RECENT"
         ELSE IF age <= 7 THEN "P3_STRATEGIC_DIRECTION"
         ELSE IF age <= 60 /\ imps >= 50000 THEN "P4_RECENT_MODERATE"
         ELSE "None"
    ELSE IF age <= 14 THEN "P1_ACTIVE_WINNER"
         ELSE IF age <= 30 THEN "P2_PROVEN_RECENT"
         ELSE IF age <= 60 THEN "P4_RECENT_MODERATE"
         ELSE "None"

\* the legacy rule or the failed-test rule applies (default thresholds)
DateSkipActive(age, imps) == age >= 180 \/ (imps > 0 /\ imps < 1000 /\ age > 30)

\* C4: with a parseable date, enough text, the default thresholds and neither
\* the legacy nor the failed-test skip, classify_ad returns the tier of the
\* specification's table, and BELOW_THRESHOLD when the table has no tier; the
\* age is reported as days_since_launch.
C4_TierTable ==
    (Classified /\ ~Undated /\ ~ThinText(ad, config) /\ DefaultThresholds
       /\ ~DateSkipActive(Age, ad.impression_lower)) =>
        /\ result[1].days = Some(Age)
        /\ result[1].priority = TierTable(Age, ad.impression_lower)
        /\ result[1].skip_reason =
              IF TierTable(Age, ad.impression_lower) = "None"
              THEN "BELOW_THRESHOLD" ELSE "None"

\* 5 days old with 15,000 impressions: P2 wins over P3
C4_Witness ==
    /\ Classified /\ ~Undated /\ DefaultThresholds
    /\ Age = 5 /\ ad.impression_lower = 15000
    /\ MaxPrimaryTextWords(ad) = 100
    /\ result[1].priority = "P2_PROVEN_RECENT"

\* C5: the skip rules in their precedence (default thresholds): fewer than 50
\* words gives THIN_TEXT whatever the date and the impressions, reporting
\* days_since_launch when the date parses; otherwise, with a parsed date, an
\* age of 180 days or more gives LEGACY_AUTOPILOT; otherwise 0 < impressions
\* < 1000 with an age over 30 days gives FAILED_TEST.
C5_SkipPrecedence ==
    (Classified /\ DefaultThresholds) =>
        /\ MaxPrimaryTextWords(ad) < 50 =>
              /\ result[1] = Skipped("THIN_TEXT", IF Undated THEN None ELSE Some(Age))
        /\ (MaxPrimaryTextWords(ad) >= 50 /\ ~Undated /\ Age >= 180) =>
              result[1] = Skipped("LEGACY_AUTOPILOT", Some(Age))
        /\ (MaxPrimaryTextWords(ad) >= 50 /\ ~Undated /\ Age < 180
              /\ ad.impression_lower > 0 /\ ad.impression_lower < 1000 /\ Age > 30) =>
              result[1] = Skipped("FAILED_TEST", Some(Age))

\* 200 days old with 500 impressions: both date rules match, legacy wins
C5_Witness ==
    /\ Classified /\ ~Undated /\ DefaultThresholds
    /\ Age = 200 /\ ad.impression_lower = 500
    /\ MaxPrimaryTextWords(ad) = 100
    /\ result[1].skip_reason = "LEGACY_AUTOPILOT"

\* P1 is the best tier, P4 the worst; a skip ranks below every tier
TierRank(r) ==
    CASE r.priority = "P1_ACTIVE_WINNER" -> 1
      [] r.priority = "P2_PROVEN_RECENT" -> 2
      [] r.priority = "P3_STRATEGIC_DIRECTION" -> 3
      [] r.priority = "P4_RECENT_MODERATE" -> 4
      [] OTHER -> 5

\* none of the three skip rules applies to the ad (default thresholds)
SkipRulesInactive(a) ==
    /\ MaxPrimaryTextWords(a) >= 50
    /\ ~DateSkipActive(DaysSinceLaunch(a.started_running, now)[1], a.impression_lower)

\* C6 as stated: at a fixed age and word count, with the skip rules inactive,
\* raising impression_lower from any value, 0 included, never turns one tier
\* into a strictly worse tier.
C6_MonotoneFromAnyValue ==
    (Classified /\ ~Undated /\ DefaultThresholds /\ SkipRulesInactive(ad)
       /\ result[1].priority # "None") =>
        \A i \in Impressions :
            LET raised == [ad EXCEPT !.impression_lower = i]
                r2 == ClassifyAd(raised, config, now)
            IN  (i > ad.impression_lower /\ SkipRulesInactive(raised)
                   /\ r2.priority # "None") =>
                    TierRank(r2) <= TierRank(result[1])

\* C6 amended: the same, for impression_lower raised from a positive value;
\* then a tier is never lost either.
C6_MonotoneFromPositive ==
    (Classified /\ ~Undated /\ DefaultThresholds /\ SkipRulesInactive(ad)
       /\ ad.impression_lower > 0) =>
        \A i \in Impressions :
            LET raised == [ad EXCEPT !.impression_lower = i]
                r2 == ClassifyAd(raised, config, now)
            IN  (i > ad.impression_lower /\ SkipRulesInactive(raised)) =>
                    TierRank(r2) <= TierRank(result[1])

\* 20 days old with 15,000 impressions is P2, and more impressions exist
C6_Witness ==
    /\ Classified /\ ~Undated /\ DefaultThresholds /\ SkipRulesInactive(ad)
    /\ Age = 20 /\ ad.impression_lower = 15000
    /\ result[1].priority = "P2_PROVEN_RECENT"
    /\ \E i \in Impressions : i > ad.impression_lower

(***************************************************************************)
(* Claims about select_ads                                                 *)
(***************************************************************************)
Selection == selection[1]
HasSelection == selection # None
Priorities == {"P1_ACTIVE_WINNER", "P2_PROVEN_RECENT", "P3_STRATEGIC_DIRECTION",
               "P4_RECENT_MODERATE"}
SkipReasons == {"NO_LAUNCH_DATE", "LEGACY_AUTOPILOT", "FAILED_TEST", "THIN_TEXT",
                "BELOW_THRESHOLD", "DUPLICATE"}
\* exactly one of priority and skip_reason is set
ExactlyOneSet(priority, skip_reason) ==
    \/ priority \in Priorities /\ skip_reason = "None"
    \/ priority = "None" /\ skip_reason \in SkipReasons
SeqRange(q) == {q[i] : i \in 1..Len(q)}

\* C1: classify_ad returns exactly one of priority and skip_reason, for every
\* ad, config and now, and so does every ClassifiedAd that select_ads returns,
\* selected or skipped.
C1_ExactlyOneOfPriorityAndSkipReason ==
    /\ Classified => ExactlyOneSet(result[1].priority, result[1].skip_reason)
    /\ HasSelection =>
          \A ca \in SeqRange(Selection.selected) \cup SeqRange(Selection.skipped) :
              ExactlyOneSet(ca.priority, ca.skip_reason)

\* select_ads has returned selected ads and ads skipped for two reasons
C1_Witness ==
    /\ HasSelection
    /\ Len(Selection.selected) >= 2
    /\ \E i, j \in 1..Len(Selection.skipped) :
          Selection.skipped[i].skip_reason # Selection.skipped[j].skip_reason

\* the ClassifiedAd list of the input, before deduplication
ClassifiedInput == ClassifyAll(in_ads, config, now)
\* the selected ads that share page_name and primary text with ca
DuplicateGroup(ca) ==
    {i \in 1..Len(in_ads) :
        /\ IsSelected(ClassifiedInput[i])
        /\ DedupKey(in_ads[i]) = DedupKey(ca.ad)}
KeptIds == {ca.ad.ad_id : ca \in SeqRange(Selection.selected)}

\* the ads of the group were all given the same priority
OneTier(g) == \A j, k \in g : ClassifiedInput[j].priority = ClassifiedInput[k].priority

\* C7: (without a limit) of the selected ads that share page_name and exact
\* primary text, a group of at most 3 keeps exactly one ad, one with the
\* group's highest impression_lower; a group of 4 or more is kept in full.
\* Stated for the groups whose ads all have the same priority, the ones that
\* select_ads deduplicates together.
C7_DuplicateGroups ==
    (HasSelection /\ limit = 0) =>
        \A i \in 1..Len(in_ads) :
            (IsSelected(ClassifiedInput[i]) /\ OneTier(DuplicateGroup(ClassifiedInput[i]))) =>
                LET g == DuplicateGroup(ClassifiedInput[i])
                    kept == {j \in g : in_ads[j].ad_id \in KeptIds}
                IN  IF Cardinality(g) <= 3
                    THEN /\ Cardinality(kept) = 1
                         /\ \A j \in kept : \A k \in g :
                               in_ads[j].impression_lower >= in_ads[k].impression_lower
                    ELSE kept = g

\* the selected list is in (tier, impressions descending) order
InSortOrder(q) ==
    \A i, j \in 1..Len(q) :
        i < j =>
            \/ PriorityValueRank(q[i].priority) < PriorityValueRank(q[j].priority)
            \/ /\ q[i].priority = q[j].priority
               /\ q[i].ad.impression_lower >= q[j].ad.impression_lower
\* the place of an ad in the input list
InputIndex(id) == CHOOSE i \in 1..Len(in_ads) : in_ads[i].ad_id = id
\* ads equal in tier and impressions stay in the order of the input
TiesInPriorOrder(q) ==
    \A i, j \in 1..Len(q) :
        (i < j /\ q[i].priority = q[j].priority
           /\ q[i].ad.impression_lower = q[j].ad.impression_lower) =>
            InputIndex(q[i].ad.ad_id) < InputIndex(q[j].ad.ad_id)

\* C8: selected is ordered by tier ascending, then impression_lower
\* descending, ties in their prior order; with limit > 0 it is exactly the
\* first min(limit, n) ads of the unlimited result.
C8_SortedAndLimited ==
    HasSelection =>
        LET full == SelectAdsOp(in_ads, config, 0, now).selected
        IN  /\ InSortOrder(Selection.selected)
            /\ TiesInPriorOrder(Selection.selected)
            /\ limit = 0 => Len(Selection.selected) = Len(full)
            /\ limit > 0 =>
                  /\ Len(Selection.selected) = Min(limit, Len(full))
                  /\ \A i \in 1..Len(Selection.selected) : Selection.selected[i] = full[i]

\* a limit that cuts a list holding two tiers and a tie
C8_Witness ==
    /\ HasSelection
    /\ limit = 2
    /\ Len(SelectAdsOp(in_ads, config, 0, now).selected) = 4
    /\ Len(Selection.selected) = 2
    /\ Selection.selected[1].ad.impression_lower > Selection.selected[2].ad.impression_lower
    /\ \E i, j \in 1..Len(in_ads) :
          /\ i < j
          /\ ClassifiedInput[i].priority = "P2_PROVEN_RECENT"
          /\ ClassifiedInput[j].priority = "P1_ACTIVE_WINNER"

(***************************************************************************)
(* Claims about the crawl loop                                             *)
(***************************************************************************)
\* C9: after any number of rounds the collected list holds each ad id once,
\* with the content of the first extraction that returned the id, in order
\* of first appearance; scrape_position is the index (from 0) in the list;
\* and neither the list nor the output is longer than max_ads.
C9_FirstSeenOncePositioned ==
    /\ \A i, j \in 1..Len(ads) : ads[i].ad_id = ads[j].ad_id => i = j
    /\ \A i \in 1..Len(ads) :
          /\ ads[i].scrape_position = i - 1
          /\ ads[i].ad_id = seen_order[i]
          /\ ads[i].body = first_seen[ads[i].ad_id]
    /\ Len(ads) = Min(CrawlMaxAds, Len(seen_order))
    /\ seen_ids = {ads[i].ad_id : i \in 1..Len(ads)}
    /\ Len(Output) <= CrawlMaxAds
    /\ pc = "done" => Output = ads

\* the crawl ended with a full list while the page had shown a further ad,
\* and an ad collected earlier had come back with other content
C9_Witness ==
    /\ pc = "done"
    /\ stop = "target"
    /\ scroll_attempts >= 2
    /\ Len(Output) = CrawlMaxAds
    /\ Len(seen_order) > CrawlMaxAds
    /\ \E i \in 1..Len(ads) : ads[i].body = "y"

\* C10 as stated: the loop has stopped as Exhausted once 3 stale rounds in a
\* row have been counted.
C10_ExhaustedAfterThree ==
    stale_rounds >= 3 => (pc = "done" /\ stop = "exhausted")

\* C10 amended: the loop stops as Exhausted as soon as 5 stale rounds in a row
\* have been counted, and not before; a scroll round that shows unseen ids,
\* or whose load-more trigger succeeds, resets the counter to zero, and any
\* other scroll round adds one to it (a round is a scroll that did not raise).
C10_ExhaustedAfterFive ==
    /\ [](stale_rounds >= StaleLimit <=> (pc = "done" /\ stop = "exhausted"))
    /\ [][(pc = "scroll" /\ pc' # "raised") =>
            /\ (new_count' > 0 \/ (new_count' = 0 /\ clicked')) => stale_rounds' = 0
            /\ (new_count' = 0 /\ ~clicked') => stale_rounds' = stale_rounds + 1]_vars

\* the loop gave up after a reset: more scrolls than stale rounds
C10_Witness ==
    /\ pc = "done"
    /\ stop = "exhausted"
    /\ stale_rounds = StaleLimit
    /\ scroll_attempts > StaleLimit
    /\ Len(ads) = 1

\* C11: whatever the page does, the crawl ends, and it never scrolls more than
\* max_scroll_attempts times, even when a load-more trigger succeeds in every
\* round and keeps the stale-round counter at zero.
C11_TerminatesWithinScrollCap ==
    /\ <>(pc \in {"done", "raised"})
    /\ [](scroll_attempts <= MaxScrollAttempts)

\* the loop was ended by the cap on scroll attempts with no stale round
\* counted: the last scroll showed nothing new and a load-more trigger
\* succeeded
C11_Witness ==
    /\ pc = "done"
    /\ stop = "cap"
    /\ scroll_attempts = MaxScrollAttempts
    /\ new_count = 0
    /\ clicked
    /\ stale_rounds = 0

\* C19: a timeout during the crawl counts as a stale round and the crawl does
\* not raise: it goes on to return the records collected so far.
C19_TimeoutIsStaleRound ==
    /\ pc # "raised"
    /\ stop = "timeout" => stale_rounds >= 1

\* C20: when all four discovery strategies fail, and only then, the crawl
\* ends as NotFound: it returns an empty list without raising and without any
\* extraction or scroll round.
C20_NotFoundIsEmptyResult ==
    /\ all_failed => (pc = "done" /\ stop = "not_found")
    /\ stop = "not_found" =>
          /\ all_failed
          /\ pc = "done"
          /\ container_selector = None
          /\ Output = <<>>
          /\ scroll_attempts = 0
          /\ seen_order = <<>>

\* the crawl has ended on a page where no strategy found a card pattern
C20_Witness ==
    /\ all_failed
    /\ stop = "not_found"
    /\ pc = "done"

(***************************************************************************)
(* Claims about the competition level                                      *)
(***************************************************************************)
Level == competition[1].level
\* the brands whose count reaches the threshold
QualifyingBrands ==
    {brand_ad_counts[i].brand :
        i \in {j \in 1..Len(brand_ad_counts) : brand_ad_counts[j].count >= 50}}
Counts == {brand_ad_counts[i].count : i \in 1..Len(brand_ad_counts)}

\* C12: with q the number of brands whose count is at least 50, the level is
\* blue_ocean for q = 0, thin for q = 1 or 2 and normal for q >= 3, and the
\* qualifying list holds exactly those q brands, each once.
C12_LevelByQualifyingCount ==
    competition # None =>
        LET q == Cardinality(QualifyingBrands)
        IN  /\ q = 0 => Level = "blue_ocean"
            /\ q \in {1, 2} => Level = "thin"
            /\ q >= 3 => Level = "normal"
            /\ SeqRange(competition[1].qualifying) = QualifyingBrands
            /\ Len(competition[1].qualifying) = q

\* four brands of which three reach the threshold
C12_Witness ==
    /\ competition # None
    /\ Len(brand_ad_counts) = 4
    /\ Cardinality(QualifyingBrands) = 3
    /\ Level = "normal"

\* C13 as stated: for any set of brand counts, all counts >= 50 (of at least
\* one brand) gives normal, all counts < 50 gives blue_ocean, and
\* {A: 60, B: 10, C: 0} gives thin.
C13_AllAboveIsNormal ==
    competition # None =>
        /\ (Counts # {} /\ \A c \in Counts : c >= 50) => Level = "normal"
        /\ (\A c \in Counts : c < 50) => Level = "blue_ocean"
        /\ brand_ad_counts = <<CountEntry("A", 60), CountEntry("B", 10), CountEntry("C", 0)>>
              => Level = "thin"

\* C13 amended: all counts >= 50 gives normal when there are at least 3
\* brands, thin when there are 1 or 2; all counts < 50 gives blue_ocean; and
\* {A: 60, B: 10, C: 0} gives thin.
C13_AllAboveIsNormalFromThreeBrands ==
    competition # None =>
        /\ (\A c \in Counts : c >= 50) =>
              /\ Len(brand_ad_counts) >= 3 => Level = "normal"
              /\ Len(brand_ad_counts) \in {1, 2} => Level = "thin"
        /\ (\A c \in Counts : c < 50) => Level = "blue_ocean"
        /\ brand_ad_counts = <<CountEntry("A", 60), CountEntry("B", 10), CountEntry("C", 0)>>
              => Level = "thin"

\* two brands, both at the threshold or above: thin
C13_Witness ==
    /\ competition # None
    /\ Len(brand_ad_counts) = 2
    /\ \A c \in Counts : c >= 50
    /\ 50 \in Counts
    /\ Level = "thin"

(***************************************************************************)
(* Claims about the deep brand search                                      *)
(***************************************************************************)
\* the ad ids of the brand's records: keyword scan plus deep search
BrandRecordIds == IdsOf(deep.keyword_ads) \cup IdsOf(deep.all_brand_ads)
\* the record passes the category filter of the market
PassesCategory(id) ==
    \/ deep.dominant_type = "unknown"
    \/ Catalogue(id).product_type \in {deep.dominant_type, "unknown"}
\* the record is given a priority by the selection engine (as a 10 days old
\* ad with 75,000 impressions, under the default thresholds)
PassesSelection(id) ==
    IsSelected(ClassifyAd(ScrapedAd(id, Catalogue(id).page_name, Catalogue(id).primary_text,
                                    TenDaysAgo, 75000),
                          EmptyConfig, NowHours))

\* C14 as stated: the qualifying-ad count of the brand is the number of its
\* deduplicated records (keyword scan plus deep search) that pass both the
\* category filter and the selection.
C14_CountsCategoryAndSelection ==
    deep.pc = "done" =>
        deep.qualifying_count =
            Cardinality({id \in BrandRecordIds : PassesCategory(id) /\ PassesSelection(id)})

\* C14 amended: the qualifying-ad count of the brand is the number of its
\* deduplicated records (keyword scan plus deep search) that pass the
\* category filter, whether the selection would skip them or not.
C14_CountsCategoryOnly ==
    deep.pc = "done" =>
        deep.qualifying_count = Cardinality({id \in BrandRecordIds : PassesCategory(id)})

\* a brand with a record in both the keyword scan and the deep search, a
\* record that the category filter drops and a counted record that the
\* selection would skip
C14_Witness ==
    /\ deep.pc = "done"
    /\ IdsOf(deep.keyword_ads) \cap IdsOf(deep.all_brand_ads) # {}
    /\ \E id \in BrandRecordIds : ~PassesCategory(id)
    /\ \E id \in BrandRecordIds : PassesCategory(id) /\ ~PassesSelection(id)
    /\ deep.qualifying_count >= 2

NoRepeatedId(records) ==
    \A i, j \in 1..Len(records) : records[i].ad_id = records[j].ad_id => i = j

\* C15: whatever the crawls return, every record that the deep search holds
\* or returns has the page_name of the target brand, and no ad_id occurs
\* twice in its result nor in the combined keyword + deep list of the
\* orchestrator.
C15_NoCrossBrandNoRepeat ==
    /\ deep.pc # "idle" =>
          /\ \A i \in 1..Len(deep.all_brand_ads) :
                deep.all_brand_ads[i].page_name = TargetBrand
          /\ \A i \in 1..Len(deep.deep_ads) : deep.deep_ads[i].page_name = TargetBrand
          /\ NoRepeatedId(deep.all_brand_ads)
          /\ NoRepeatedId(deep.deep_ads)
          /\ NoRepeatedId(deep.combined)
          /\ NoRepeatedId(deep.filtered)
    /\ deep.pc = "done" => IdsOf(deep.combined) = IdsOf(deep.keyword_ads) \cup IdsOf(deep.deep_ads)

\* the crawls returned an ad of another page and returned an ad of the
\* brand twice, and the keyword scan had an ad that the deep search returns
C15_Witness ==
    /\ deep.pc = "done"
    /\ deep.others # {}
    /\ \E i \in 1..Len(deep.deep_ads) :
          deep.deep_ads[i].crawl > deep.first_crawl[deep.deep_ads[i].ad_id]
    /\ IdsOf(deep.keyword_ads) \cap IdsOf(deep.deep_ads) # {}

\* C16: when the deep search returns, it has run exactly one direct-page
\* crawl for each distinct page id that the variant crawls surfaced.
C16_OneCrawlPerPageId ==
    deep.pc \in {"returned", "done"} =>
        /\ SeqRange(deep.page_crawls) = deep.surfaced
        /\ Len(deep.page_crawls) = Cardinality(deep.surfaced)

\* C17: the record that the deep search holds for an ad_id is the one of the
\* first crawl that returned the id.
C17_FirstSeenSurvives ==
    deep.pc # "idle" =>
        \A i \in 1..Len(deep.all_brand_ads) :
            deep.all_brand_ads[i].crawl = deep.first_crawl[deep.all_brand_ads[i].ad_id]

(***************************************************************************)
(* Claims about the multi-query operations                                 *)
(***************************************************************************)
\* the deep search went through all its query variants, the crawls that
\* failed left no record, and every ad of the brand that a completed crawl
\* returned is held
DeepSearchSurvivesFailures ==
    /\ deep.pc \in {"returned", "done"} => deep.crawls >= deep.queries
    /\ deep.pc # "idle" =>
          /\ \A i \in 1..Len(deep.all_brand_ads) :
                deep.all_brand_ads[i].crawl \notin deep.failed
          /\ IdsOf(deep.all_brand_ads) = DOMAIN deep.first_crawl

\* the keyword expansion went through all the related keywords, and every ad
\* that a completed scan returned (the primary scan included) is in the
\* merged result
ExpansionSurvivesFailures ==
    expand.pc = "done" =>
        /\ expand.scans = Len(expand.related)
        /\ expand.completed \subseteq IdsOf(expand.deduplicated_ads)

\* C18: in a multi-query operation a failed query does not stop the
\* operation, contributes no ad, and leaves the ads of the completed queries
\* in the final result.
C18_PartialFailureKeepsCompleted ==
    DeepSearchSurvivesFailures /\ ExpansionSurvivesFailures

(***************************************************************************)
(* Claims about MarketPipeline.run                                         *)
(***************************************************************************)
CompetitionLevels == {"normal", "thin", "blue_ocean"}
\* the scan of the run has no ad, hence no advertiser
ZeroAdScan == market.pc # "idle" /\ market.advertisers = <<>>

\* C21: a market run whose scan yields zero ads never raises, and the
\* MarketResult it returns has zero advertisers, brands_analyzed = 0 and a
\* competition level.
C21_ZeroAdScanReturns ==
    ZeroAdScan =>
        /\ market.pc # "raised"
        /\ market.pc = "returned" =>
              /\ market.result # None
              /\ market.result[1].total_advertisers = 0
              /\ market.result[1].brands_analyzed = 0
              /\ market.result[1].competition_level \in CompetitionLevels

(***************************************************************************)
(* Claims about the merge of keyword scans                                 *)
(***************************************************************************)
\* the scans that deduplicate_ads_across_keywords is given, in keyword order
ByKeyword == expand.all_ads_by_keyword
MergedIds == UNION {IdsOf(ByKeyword[i].ads) : i \in 1..Len(ByKeyword)}
\* the first keyword, in keyword order, whose scan holds the ad id
FirstEntryOf(id) ==
    CHOOSE i \in 1..Len(ByKeyword) :
        /\ id \in IdsOf(ByKeyword[i].ads)
        /\ \A j \in 1..(i - 1) : id \notin IdsOf(ByKeyword[j].ads)
RecordOf(records, id) == CHOOSE a \in SeqRange(records) : a.ad_id = id

RECURSIVE SumOver(_, _)
SumOver(f, S) ==
    IF S = {} THEN 0
    ELSE LET x == CHOOSE y \in S : TRUE IN f[x] + SumOver(f, S \ {x})

\* the scans made for a keyword, by their number (0 is the primary scan)
ScansOf(kw) ==
    {n \in 1..expand.scans : expand.related[n] = kw}
    \cup (IF kw = PrimaryKeyword THEN {0} ELSE {})

\* C22: the merge of the keyword scans, primary keyword first, keeps exactly
\* one record per ad_id, the one of the first keyword, in keyword order,
\* that holds it; the contribution of a keyword is the number of ad_ids
\* first seen under it, the contributions sum to the size of the merged
\* list, and a keyword whose scans all failed contributes 0.
C22_MergeKeepsFirstAndCounts ==
    expand.pc = "done" =>
        /\ ByKeyword[1].keyword = PrimaryKeyword
        /\ NoRepeatedId(expand.deduplicated_ads)
        /\ IdsOf(expand.deduplicated_ads) = MergedIds
        /\ \A id \in MergedIds :
              RecordOf(expand.deduplicated_ads, id)
                  = RecordOf(ByKeyword[FirstEntryOf(id)].ads, id)
        /\ DOMAIN expand.contributions = {ByKeyword[i].keyword : i \in 1..Len(ByKeyword)}
        /\ \A i \in 1..Len(ByKeyword) :
              expand.contributions[ByKeyword[i].keyword]
                  = Cardinality({id \in MergedIds : FirstEntryOf(id) = i})
        /\ SumOver(expand.contributions, DOMAIN expand.contributions)
              = Len(expand.deduplicated_ads)
        /\ \A kw \in DOMAIN expand.contributions :
              ScansOf(kw) \subseteq expand.failed => expand.contributions[kw] = 0

\* two keywords returned the same ad, each keyword contributed an ad of its
\* own, and the scan of a third keyword failed
C22_Witness ==
    /\ expand.pc = "done"
    /\ Len(ByKeyword) = 3
    /\ IdsOf(ByKeyword[1].ads) \cap IdsOf(ByKeyword[2].ads) # {}
    /\ expand.contributions[ByKeyword[1].keyword] > 0
    /\ expand.contributions[ByKeyword[2].keyword] > 0
    /\ expand.failed # {}
    /\ expand.contributions[ByKeyword[3].keyword] = 0

(***************************************************************************)
(* Claims about aggregate_by_advertiser and rank_advertisers               *)
(***************************************************************************)
Aggregated == aggregation.pc = "aggregated"
NowInferred == Aggregated /\ aggregation.now = None
LatestLaunch == MostRecentFrom(aggregation.ads, 1, None)
Entries == aggregation.advertisers

C24_RankLeavesInputUnchanged ==
    aggregation.pc = "ranked" =>
        /\ aggregation.ranked[1] = RankAdvertisers(aggregation.passed[1])
        /\ aggregation.advertisers = aggregation.passed[1]

\* the input ads of one page, by their place in the list
AdsOfPage(p) == {i \in 1..Len(aggregation.ads) : aggregation.ads[i].page_name = p}
LaunchOf(i) == ParseLaunch(aggregation.ads[i].started_running)
ImpressionsOf == [i \in 1..Len(aggregation.ads) |-> aggregation.ads[i].impression_lower]
AdCounts == [i \in 1..Len(Entries) |-> Entries[i].ad_count]

Walked == discovery.pc = "done" /\ discovery.n_links > 0
\* the ancestors that the walk can reach: below the root, within the limit
Reachable == 0..(Min(WalkLimit, Len(discovery.ancestors) - 1) - 1)
SiblingsAt(depth) == discovery.ancestors[depth + 1].siblings_with_ads
SelectorAt(depth) == discovery.ancestors[depth + 1].selector
AcceptedDepth == discovery.selector[1].depth

PassesSiblingTest(depth) ==
    \/ SiblingsAt(depth) >= 2
    \/ SiblingsAt(depth) >= 1 /\ discovery.n_links = 1

RawAds == generated.raw_ads
\* C27: the id generated for a card without detail link is a function of
\* the card; two cards get the same generated id only when their page_name
\* and their primary_text are the same; and the merge by ad_id keeps one ad
\* for each distinct card of the session.
C27_GeneratedIdsTellAdsApart ==
    generated.pc \in {"extracted", "merged"} =>
        /\ \A i \in 1..Len(RawAds) : generated.new_ads[i].ad_id = GenerateId(RawAds[i])
        /\ \A i, j \in 1..Len(RawAds) :
              generated.new_ads[i].ad_id = generated.new_ads[j].ad_id =>
                  /\ RawAds[i].page_name = RawAds[j].page_name
                  /\ RawAds[i].primary_text = RawAds[j].primary_text
        /\ generated.pc = "merged" =>
              Len(generated.ads) = Cardinality(SeqRange(RawAds))

(***************************************************************************)
(* Claims about the brands of a market run                                 *)
(***************************************************************************)
\* the top-N brands of the run whose qualifying-ad count is >= 50
ThresholdBrands ==
    {market.advertisers[b].page_name :
        b \in {i \in 1..Min(market.top_brands, Len(market.advertisers)) :
                  market.advertisers[i].qualifying_ads >= BLUE_OCEAN_THRESHOLD}}

\* C28: every brand selection and every brand report of a market run belongs
\* to a top-N brand whose qualifying-ad count is >= 50; brands_analyzed <=
\* the number of qualifying brands <= top_brands; a blue_ocean result has
\* brands_analyzed = 0 and no brand report.
C28_OnlyThresholdBrandsAnalysed ==
    market.pc \in {"analyze", "returned"} =>
        /\ \A i \in 1..Len(market.brand_selections) :
              market.brand_selections[i].page_name \in ThresholdBrands
        /\ \A i \in 1..Len(market.brand_reports) :
              market.brand_reports[i].page_name \in ThresholdBrands
        /\ market.result # None =>
              /\ \A i \in 1..Len(market.result[1].brand_reports) :
                    market.result[1].brand_reports[i].page_name \in ThresholdBrands
              /\ market.result[1].brands_analyzed <= Cardinality(ThresholdBrands)
              /\ Cardinality(ThresholdBrands) = Len(market.qualifying_brands)
              /\ Len(market.qualifying_brands) <= market.top_brands
              /\ market.result[1].competition_level = "blue_ocean" =>
                    /\ market.result[1].brands_analyzed = 0
                    /\ market.result[1].brand_reports = <<>>

\* a run returned with a brand report while a top-N brand below the
\* threshold had selectable ads
C28_Witness ==
    /\ market.pc = "returned"
    /\ market.result[1].brands_analyzed >= 1
    /\ \E b \in 1..Len(market.top_advertisers) :
          /\ market.top_advertisers[b].qualifying_ads < BLUE_OCEAN_THRESHOLD
          /\ market.top_advertisers[b].picks # <<>>

(***************************************************************************)
(* Claims about the statistics of select_ads                               *)
(***************************************************************************)
Stats == selection[1].stats
SelectedIds == {selection[1].selected[i].ad.ad_id : i \in 1..Len(selection[1].selected)}
SkippedIds == {selection[1].skipped[i].ad.ad_id : i \in 1..Len(selection[1].skipped)}

Contents == market.contents
\* C30: across the brands that a market run analyses in sequence, an ad is
\* FILTERED_OUT with reason DUPLICATE only when an earlier ad of the same
\* brand's analysis had the same content hash.
C30_DuplicateWithinBrandOnly ==
    \A k \in 1..Len(Contents) :
        Contents[k].filter_reason = "duplicate" =>
            \E j \in 1..(k - 1) :
                /\ Contents[j].brand = Contents[k].brand
                /\ Contents[j].hash = Contents[k].hash

====
